---- MODULE Spec2Model ----
(***************************************************************************)
(* lgrep: the index store (internal/store), the indexer                    *)
(* (internal/indexer), the watcher (internal/watcher), the searcher        *)
(* (internal/search) and the tool server (internal/mcp).                   *)
(*                                                                         *)
(* The database is a record of its tables.  A store operation is the list  *)
(* of SQL statements it issues (its "program"); Exec gives the effect of   *)
(* one statement under the schema's constraints, RunProg runs a program    *)
(* the way database/sql does: inside a transaction a failure rolls every   *)
(* statement back, outside one each statement commits on its own.          *)
(***************************************************************************)
EXTENDS Integers, Sequences, FiniteSets, TLC

VARIABLES
    db,         \* the tables as the writing connection sees them
    committed,  \* the tables as committed (what any other connection reads)
    last,       \* outcome of the last completed store call
    wop,        \* the store call in flight (statement by statement)
    mu,         \* SQLiteStore.mu: [writer : BOOLEAN, readers : Nat]
    rd,         \* the searching goroutines
    stable,     \* history: the committed tables when the last call began or ended
    disk,       \* the watched tree: content of each path, and the changes made to it
    ix,         \* the Index pass in progress: options, walked files, position, Progress
    wt,         \* the watcher: fsnotify's channel, the debounce map, what it emitted
    sq,         \* the Searcher: its last call and what it returned
    srv,        \* the tool server: lines read, responses written, the initialized flag
    wk,         \* the file walker: its options, the tree, and what Walk yielded
    ck,         \* the chunker: its options, the content, and the chunks emitted
    dq,         \* the debounce map shared by the event receiver and the ticker goroutine
    tl,         \* the tools called on directories of several names
    adm         \* the Indexer's calls by store name: DeleteFile, Clear, Stats

vars == <<db, committed, last, wop, mu, rd, stable, disk, ix, wt, sq, srv, wk, ck, dq, tl, adm>>

----------------------------------------------------------------------------
(* Bounds of the model *)

MaxRows == 5        \* rows ever inserted into stores, files and chunks together
MaxReaders == 1     \* concurrent searching goroutines
MaxPasses == 2      \* Index calls in a run
MaxFsOps == 1       \* changes made to the tree in a run
MaxContent == 2     \* the largest content of a file: content c is cut into c chunks

MaxEvents == 3      \* changes made to the watched tree in a run
MaxHits == 3        \* chunks ever inserted in the runs of the searcher
MaxLines == 3       \* lines the tool server reads in a run
MaxEntries == 3     \* files and directories below the root of a walked tree
MaxVectors == 11    \* chunks ever inserted in the runs of the k-NN search
MaxFileLines == 4   \* lines of a content given to the chunker
MaxCalls == 3       \* calls of the Indexer by store name

Readers == 1..MaxReaders
Absent == -1        \* the content of a path with no file
Paths == {"f", "g"}

Min(a, b) == IF a < b THEN a ELSE b
Abs(a) == IF a < 0 THEN 0 - a ELSE a

----------------------------------------------------------------------------
(* The tables *)

EmptyDB ==
    [stores |-> {}, files |-> {}, chunks |-> {}, vectors |-> {},
     vecWidth |-> 0,
     seq |-> [store |-> 0, file |-> 0, chunk |-> 0]]

\* the store ids ever issued, and one that never was
StoreIds(d) == 1..(d.seq.store + 1)

StoreByName(d, name) == {s \in d.stores : s.name = name}
StoreById(d, sid) == {s \in d.stores : s.id = sid}
FilesOfStore(d, sid) == {f \in d.files : f.store = sid}
FileByExternalID(d, sid, ext) == {f \in d.files : f.store = sid /\ f.ext = ext}
ChunksOfFile(d, fid) == {c \in d.chunks : c.file = fid}
ChunksOfStore(d, sid) ==
    {c \in d.chunks : \E f \in d.files : f.id = c.file /\ f.store = sid}
VectorsOfChunks(d, cs) == {v \in d.vectors : \E c \in cs : c.id = v.chunk}

(* ON DELETE CASCADE of files.store_id and chunks.file_id, with            *)
(* _foreign_keys=on: rows whose parent row is gone are deleted.            *)
CascadeOff(d) == d
Cascade(d) ==
    LET fs == {f \in d.files : \E s \in d.stores : s.id = f.store}
        cs == {c \in d.chunks : \E f \in fs : f.id = c.file}
    IN  [d EXCEPT !.files = fs, !.chunks = cs]

----------------------------------------------------------------------------
(* SQL statements *)

NoStmt ==
    [k |-> "nop", sid |-> 0, fid |-> 0, ext |-> "", hash |-> 0, idx |-> 0,
     content |-> 0, width |-> 0, dir |-> 0, name |-> "", n |-> 0, m |-> 0,
     now |-> 0]

Stmt(k) == [NoStmt EXCEPT !.k = k]

Ok(d) == [ok |-> TRUE, db |-> d]
Err(d) == [ok |-> FALSE, db |-> d]

(* The effect of one statement on the tables d; a statement that violates  *)
(* a constraint fails and changes nothing.                                 *)
Exec(st, d) ==
    CASE st.k = "lenCheck" ->
            IF st.n = st.m THEN Ok(d) ELSE Err(d)
      [] st.k \in {"select", "commit"} -> Ok(d)
      [] st.k = "ensureVec" ->
            IF d.vecWidth = 0 THEN Ok([d EXCEPT !.vecWidth = st.width]) ELSE Ok(d)
      [] st.k = "insStore" ->
            IF StoreByName(d, st.name) # {} THEN Err(d)
            ELSE Ok([d EXCEPT
                       !.stores = @ \cup {[id |-> d.seq.store + 1, name |-> st.name,
                                           dims |-> st.width, updated |-> st.now]},
                       !.seq.store = @ + 1])
      [] st.k = "touchStore" ->
            Ok([d EXCEPT !.stores =
                   {IF x.id = st.sid THEN [x EXCEPT !.updated = st.now] ELSE x : x \in @}])
      [] st.k = "delVecsFile" ->
            Ok([d EXCEPT !.vectors = @ \ VectorsOfChunks(d, ChunksOfFile(d, st.fid))])
      [] st.k = "delChunksFile" ->
            Ok([d EXCEPT !.chunks = @ \ ChunksOfFile(d, st.fid)])
      [] st.k = "updFile" ->
            Ok([d EXCEPT !.files =
                   {IF f.id = st.fid THEN [f EXCEPT !.hash = st.hash] ELSE f : f \in @}])
      [] st.k = "insFile" ->
            IF StoreById(d, st.sid) = {} \/ FileByExternalID(d, st.sid, st.ext) # {}
            THEN Err(d)
            ELSE Ok([d EXCEPT
                       !.files = @ \cup {[id |-> d.seq.file + 1, store |-> st.sid,
                                          ext |-> st.ext, hash |-> st.hash]},
                       !.seq.file = @ + 1])
      [] st.k = "insChunk" ->
            IF (\A f \in d.files : f.id # st.fid)
               \/ (\E c \in d.chunks : c.file = st.fid /\ c.idx = st.idx)
            THEN Err(d)
            ELSE Ok([d EXCEPT
                       !.chunks = @ \cup {[id |-> d.seq.chunk + 1, file |-> st.fid,
                                           idx |-> st.idx, content |-> st.content]},
                       !.seq.chunk = @ + 1])
      [] st.k = "insVec" ->
            \* chunkID is LastInsertId of the chunk row just inserted
            IF d.vecWidth = 0 \/ st.width # d.vecWidth
               \/ (\E v \in d.vectors : v.chunk = d.seq.chunk)
            THEN Err(d)
            ELSE Ok([d EXCEPT
                       !.vectors = @ \cup {[chunk |-> d.seq.chunk, width |-> st.width,
                                            dir |-> st.dir]}])
      [] st.k = "delVecsStore" ->
            Ok([d EXCEPT !.vectors = @ \ VectorsOfChunks(d, ChunksOfStore(d, st.sid))])
      [] st.k = "delStore" ->
            Ok(Cascade([d EXCEPT !.stores = @ \ StoreById(d, st.sid)]))
      [] st.k = "delFile" ->
            Ok(Cascade([d EXCEPT !.files = {f \in @ : f.id # st.fid}]))
      [] st.k = "delFilesStore" ->
            Ok(Cascade([d EXCEPT !.files = @ \ FilesOfStore(d, st.sid)]))
      [] OTHER -> Ok(d)

(* Which calls take s.mu.Lock() and which run their statements in one      *)
(* transaction (s.db.Begin ... tx.Commit, defer tx.Rollback).              *)
DisciplineNoTx(kind) == [lock |-> TRUE, tx |-> FALSE]
DisciplineNone(kind) == [lock |-> FALSE, tx |-> FALSE]
Discipline(kind) == [lock |-> TRUE, tx |-> kind = "upsert"]

(* Statement i of prog on the tables cur; orig is what a rollback restores. *)
(* fail makes the statement fail with an I/O error.  A failing statement   *)
(* ends the call: inside a transaction the deferred tx.Rollback() restores *)
(* orig (a failing Commit is rolled back by the driver), outside one the   *)
(* statements already run stay.                                            *)
Step(prog, i, cur, orig, tx, fail) ==
    LET Result(r) ==
            IF fail \/ ~r.ok
            THEN [end |-> TRUE, ok |-> FALSE, db |-> IF tx THEN orig ELSE cur, at |-> i]
            ELSE [end |-> i = Len(prog), ok |-> TRUE, db |-> r.db, at |-> 0]
    IN  Result(Exec(prog[i], cur))

RECURSIVE RunFrom(_, _, _, _, _, _)
RunFrom(prog, i, cur, orig, tx, failAt) ==
    LET Rest(s) == IF s.end THEN s
                   ELSE RunFrom(prog, i + 1, s.db, orig, tx, failAt)
    IN  Rest(Step(prog, i, cur, orig, tx, i = failAt))

RunProg(kind, prog, d, failAt) ==
    RunFrom(prog, 1, d, d, Discipline(kind).tx, failAt)

----------------------------------------------------------------------------
(* The store calls, as the statements they issue on the tables d *)

\* the reading of the clock in the runs where no claim looks at a timestamp
Epoch == 0

\* CreateStore when time.Now() reads now: created_at = updated_at = now
CreateStoreAt(d, name, dims, now) ==
    << [Stmt("ensureVec") EXCEPT !.width = dims],
       [Stmt("insStore") EXCEPT !.name = name, !.width = dims, !.now = now] >>

CreateStore(d, name, dims) == CreateStoreAt(d, name, dims, Epoch)

\* UpdateStoreTimestamp when time.Now() reads now
UpdateStoreTimestamp(d, id, now) ==
    << [Stmt("touchStore") EXCEPT !.sid = id, !.now = now] >>

RECURSIVE InsertChunks(_, _, _, _)
InsertChunks(fid, chunks, embeddings, i) ==
    IF i > Len(chunks) THEN << >>
    ELSE << [Stmt("insChunk") EXCEPT !.fid = fid, !.idx = chunks[i].idx,
                                     !.content = chunks[i].content],
            [Stmt("insVec") EXCEPT !.width = embeddings[i].width,
                                   !.dir = embeddings[i].dir] >>
         \o InsertChunks(fid, chunks, embeddings, i + 1)

\* UpsertFile leaving the vectors of the old chunks in the vector table
UpsertFileKeepsVectors(d, storeID, file, chunks, embeddings) ==
    LET existing == FileByExternalID(d, storeID, file.ext)
        fid == IF existing # {} THEN (CHOOSE f \in existing : TRUE).id
               ELSE d.seq.file + 1
    IN  IF Len(chunks) # Len(embeddings)
        THEN << [Stmt("lenCheck") EXCEPT !.n = Len(chunks), !.m = Len(embeddings)] >>
        ELSE << Stmt("select") >>
             \o (IF existing # {}
                 THEN << [Stmt("delChunksFile") EXCEPT !.fid = fid],
                         [Stmt("updFile") EXCEPT !.fid = fid, !.hash = file.hash] >>
                 ELSE << [Stmt("insFile") EXCEPT !.sid = storeID, !.ext = file.ext,
                                                  !.hash = file.hash] >>)
             \o InsertChunks(fid, chunks, embeddings, 1)
             \o << Stmt("commit") >>

UpsertFile(d, storeID, file, chunks, embeddings) ==
    LET existing == FileByExternalID(d, storeID, file.ext)
        fid == IF existing # {} THEN (CHOOSE f \in existing : TRUE).id
               ELSE d.seq.file + 1
    IN  IF Len(chunks) # Len(embeddings)
        THEN << [Stmt("lenCheck") EXCEPT !.n = Len(chunks), !.m = Len(embeddings)] >>
        ELSE << Stmt("select") >>
             \o (IF existing # {}
                 THEN << [Stmt("delVecsFile") EXCEPT !.fid = fid],
                         [Stmt("delChunksFile") EXCEPT !.fid = fid],
                         [Stmt("updFile") EXCEPT !.fid = fid, !.hash = file.hash] >>
                 ELSE << [Stmt("insFile") EXCEPT !.sid = storeID, !.ext = file.ext,
                                                  !.hash = file.hash] >>)
             \o InsertChunks(fid, chunks, embeddings, 1)
             \o << Stmt("commit") >>

DeleteFile(d, storeID, externalID) ==
    LET existing == FileByExternalID(d, storeID, externalID) IN
    IF existing = {} THEN << Stmt("select") >>
    ELSE LET fid == (CHOOSE f \in existing : TRUE).id IN
         << Stmt("select"),
            [Stmt("delVecsFile") EXCEPT !.fid = fid],
            [Stmt("delFile") EXCEPT !.fid = fid] >>

DeleteStore(d, name) ==
    LET existing == StoreByName(d, name) IN
    IF existing = {} THEN << Stmt("select") >>
    ELSE LET sid == (CHOOSE s \in existing : TRUE).id IN
         << Stmt("select"),
            [Stmt("delVecsStore") EXCEPT !.sid = sid],
            [Stmt("delStore") EXCEPT !.sid = sid] >>

\* ClearStore that also sets the store's updated_at
ClearStoreTouches(d, storeID) ==
    << [Stmt("delVecsStore") EXCEPT !.sid = storeID],
       [Stmt("delFilesStore") EXCEPT !.sid = storeID],
       [Stmt("touchStore") EXCEPT !.sid = storeID, !.now = Epoch] >>

ClearStore(d, storeID) ==
    << [Stmt("delVecsStore") EXCEPT !.sid = storeID],
       [Stmt("delFilesStore") EXCEPT !.sid = storeID] >>

----------------------------------------------------------------------------
(* Search: k-NN over the whole vector table, then the join and the filter *)

InnerFactor == 10
InnerCap == 1000

Distance(q, dir) == Abs(q - dir)

Before(q, a, b) ==
    \/ Distance(q, a.dir) < Distance(q, b.dir)
    \/ Distance(q, a.dir) = Distance(q, b.dir) /\ a.chunk < b.chunk

RECURSIVE Nearest(_, _, _)
Nearest(q, vs, k) ==
    IF k <= 0 \/ vs = {} THEN << >>
    ELSE LET v == CHOOSE x \in vs : \A y \in vs \ {x} : Before(q, x, y)
         IN  << v >> \o Nearest(q, vs \ {v}, k - 1)

Search(d, storeID, q, topK) ==
    LET kForVec == Min(topK * InnerFactor, InnerCap)
        knn == Nearest(q, d.vectors, kForVec)
        joined == SelectSeq(knn,
                    LAMBDA v : \E c \in d.chunks : c.id = v.chunk
                                 /\ \E f \in d.files : f.id = c.file /\ f.store = storeID)
        row(v) == LET c == CHOOSE c \in d.chunks : c.id = v.chunk
                      f == CHOOSE f \in d.files : f.id = c.file
                  IN  [chunk |-> c.id, idx |-> c.idx, content |-> c.content,
                       file |-> f.id, ext |-> f.ext, store |-> f.store,
                       distance |-> Distance(q, v.dir), score |-> 1 - Distance(q, v.dir)]
    IN  [i \in 1..Min(topK, Len(joined)) |-> row(joined[i])]

----------------------------------------------------------------------------
(* Inputs of the store calls *)

\* The arguments the calls are tried with: stores as <<name, dimensions>>,
\* files as <<external id, hash>>, chunk lists as <<number of chunks; well
\* formed, a repeated chunk_index or one embedding short; embedding width>>.
FaultInputs ==
    [stores |-> {<<"a", 2>>},
     files  |-> {<<"f", 1>>, <<"f", 2>>, <<"g", 1>>},
     shapes |-> {<<0, "ok", 2>>, <<1, "ok", 2>>, <<2, "ok", 2>>, <<1, "ok", 3>>,
                 <<2, "dup", 2>>, <<1, "short", 2>>}]

WideInputs ==
    [stores |-> {<<"a", 2>>, <<"b", 3>>},
     files  |-> {<<"f", 1>>, <<"g", 1>>},
     shapes |-> {<<0, "ok", 2>>, <<1, "ok", 2>>, <<2, "ok", 2>>, <<1, "ok", 3>>}]

ChunkInput(shape, hash) ==
    [i \in 1..shape[1] |->
        [idx |-> IF shape[2] = "dup" THEN 0 ELSE i - 1, content |-> hash]]

EmbeddingInput(shape, hash) ==
    [i \in 1..(IF shape[2] = "short" THEN shape[1] - 1 ELSE shape[1]) |->
        [width |-> shape[3], dir |-> (hash + i) % 3]]

\* a completed call: its arguments when it succeeded; when it failed, whether
\* it had found its row and whether a statement of it had already run
NoCall == [op |-> "none", ok |-> TRUE, late |-> FALSE, found |-> FALSE,
           sid |-> 0, ext |-> "", n |-> 0]
Idle == [kind |-> "idle", prog |-> << >>, i |-> 0, tx |-> FALSE, locked |-> FALSE,
         call |-> NoCall]
ZeroProgress == [total |-> 0, processed |-> 0, skipped |-> 0, totalChunks |-> 0,
                 processedChunks |-> 0, errors |-> 0]
NoPass == [pc |-> "idle", ctx |-> "live", pass |-> 0, force |-> FALSE, batchSize |-> 0,
           sid |-> 0, files |-> << >>, i |-> 0, content |-> 0, n |-> 0, b |-> 0,
           progress |-> ZeroProgress, embeds |-> 0, result |-> "none", log |-> "",
           lookup |-> "none", sawCancel |-> FALSE, lookupFailed |-> FALSE,
           fs0 |-> 0, settled |-> -1, settledPrev |-> -1,
           fileEmbeds |-> 0, allEmbeddings |-> << >>]
NoDisk == [files |-> [p \in Paths |-> Absent], ops |-> 0]
NoActs == [deletes |-> 0, indexes |-> 0, embeds |-> 0, upserts |-> 0]
NoWatch == [events |-> << >>, debounce |-> [p \in Paths |-> "none"],
            window |-> [p \in Paths |-> << >>], closed |-> [p \in Paths |-> << >>],
            acts |-> [p \in Paths |-> NoActs], emitted |-> {},
            owed |-> [p \in Paths |-> "none"]]
NoReader == [pc |-> "idle", sid |-> 0, q |-> 0, k |-> 0, res |-> << >>, during |-> FALSE]
\* a Searcher call: its arguments, what the embedder and the store did
\* (fault, failing, qvec), and what it returned; raw are the rows the store's
\* Search calls returned, in the order they were made
NoSearch == [op |-> "none", query |-> "", storeName |-> "", topK |-> 0, minScore |-> 0,
             qvec |-> 0, fault |-> "none", failing |-> {},
             err |-> "", results |-> << >>, raw |-> << >>, embeds |-> 0, searched |-> {}]
\* a tools/call in the tool server: what it found and did
NoTool == [name |-> "", query |-> "", scenario |-> "none", present |-> FALSE,
           indexRuns |-> 0, searches |-> 0, hits |-> 0]
\* filepath.Base of a path, a sequence of names
BaseName(path) == path[Len(path)]

\* the directories the tools are called on: two of one name, one of another
Dirs == {<<"x", "a">>, <<"y", "a">>, <<"x", "b">>}
\* the tools on the directories: the tree below each directory, the number
\* of calls made, and the last call: the tool, its path argument, the
\* result's isError and text, and the relative paths of the results
NoTools == [trees |-> [dir \in Dirs |-> [files |-> [p \in Paths |-> Absent], ops |-> 0]],
            calls |-> 0, tool |-> "", path |-> << >>, isError |-> FALSE, text |-> "",
            files |-> << >>]
\* the Indexer called by store name: the number of calls, and the last
\* call: the method, the name, whether the store was there, the error
\* returned, whether the call panicked, whether the tables changed, and the
\* counts of Stats
NoAdmin == [pc |-> "idle", calls |-> 0, op |-> "", name |-> "", present |-> FALSE,
            err |-> "", changed |-> FALSE, stats |-> [files |-> 0, chunks |-> 0]]
\* the tool server: the lines read (history), the responses written to stdout
NoServer == [pc |-> "serving", err |-> "", initialized |-> FALSE, read |-> << >>,
             out |-> << >>, tool |-> NoTool]

\* a Walk: the options, the root's own name, the tree below the root, the
\* last entry WalkDir has visited, the directories it did not descend into,
\* the files handed to the callback, in order, and the WalkStats
NoWalk == [pc |-> "idle", root |-> "", includeHidden |-> FALSE, maxFileCount |-> 0,
           tree |-> << >>, at |-> 0, pruned |-> {}, yielded |-> << >>,
           filesFound |-> 0, filesSkipped |-> 0, dirsSkipped |-> 0]
\* a Chunk call: the options given to NewTextChunker, the content as its
\* lines, whether the file name is of a language chunked by chunkCode, and
\* the chunks returned
NoChunking == [pc |-> "idle", opts |-> [chunkSize |-> 0, chunkOverlap |-> 0,
                                        minChunkSize |-> 0],
               lines |-> << >>, code |-> FALSE, chunks |-> << >>]

\* the two goroutines of the watcher around the debounce map: where each
\* is, who holds debounceMu, the map and the snapshot as the number of the
\* recorded op of each path (0 for none); history: the ops recorded so
\* far, how each one left the map, the drains begun and those running
NoDebounce == [recv |-> "idle", ev |-> [path |-> "", op |-> ""], flush |-> "idle",
               mu |-> "free", debounce |-> [p \in Paths |-> 0],
               events |-> [p \in Paths |-> 0], todo |-> {},
               recorded |-> << >>, fate |-> << >>, handled |-> << >>,
               drains |-> 0, running |-> 0]

\* the first statement of a call that writes
FirstWrite(kind) == IF kind \in {"create", "clear"} THEN 1 ELSE 2

Outcome(kind, call, r) ==
    IF r.ok THEN [call EXCEPT !.op = kind, !.found = FALSE]
    ELSE [NoCall EXCEPT !.op = kind, !.ok = FALSE, !.found = call.found,
                        !.late = r.at > FirstWrite(kind)]

Inserts(prog) ==
    Cardinality({i \in 1..Len(prog) : prog[i].k \in {"insStore", "insFile", "insChunk"}})

WithinRows(d, prog) ==
    d.seq.store + d.seq.file + d.seq.chunk + Inserts(prog) <= MaxRows

----------------------------------------------------------------------------
(* Whole store calls.  inject = TRUE lets any one statement fail.          *)

StoreCall(kind, prog, call, inject) ==
    /\ WithinRows(db, prog)
    /\ \E failAt \in 0..(IF inject THEN Len(prog) ELSE 0) :
          LET r == RunProg(kind, prog, db, failAt) IN
          /\ db' = r.db
          /\ committed' = r.db
          /\ stable' = r.db
          /\ last' = Outcome(kind, call, r)
    /\ UNCHANGED <<wop, mu, rd, disk, ix, wt, sq, srv, wk, ck, dq, tl, adm>>

CallCreateStore(inject, in) ==
    \E st \in in.stores :
        StoreCall("create", CreateStore(db, st[1], st[2]),
                  [NoCall EXCEPT !.sid = db.seq.store + 1], inject)

CallUpsertFile(inject, in) ==
    \E sid \in StoreIds(db), fin \in in.files, shape \in in.shapes :
        StoreCall("upsert",
                  UpsertFile(db, sid, [ext |-> fin[1], hash |-> fin[2]],
                             ChunkInput(shape, fin[2]), EmbeddingInput(shape, fin[2])),
                  [NoCall EXCEPT !.sid = sid, !.ext = fin[1], !.n = shape[1],
                                 !.found = FileByExternalID(db, sid, fin[1]) # {}],
                  inject)

CallDeleteFile(inject, in) ==
    \E sid \in StoreIds(db), fin \in in.files :
        StoreCall("delFile", DeleteFile(db, sid, fin[1]),
                  [NoCall EXCEPT !.sid = sid, !.ext = fin[1],
                                 !.found = FileByExternalID(db, sid, fin[1]) # {}], inject)

CallDeleteStore(inject, in) ==
    \E st \in in.stores :
        StoreCall("delStore", DeleteStore(db, st[1]),
                  [NoCall EXCEPT !.found = StoreByName(db, st[1]) # {},
                                 !.n = Cardinality(UNION {ChunksOfStore(db, x.id) :
                                                           x \in StoreByName(db, st[1])}),
                                 !.sid = IF StoreByName(db, st[1]) = {} THEN 0
                                         ELSE (CHOOSE s \in StoreByName(db, st[1]) : TRUE).id],
                  inject)

CallClearStore(inject, in) ==
    \E sid \in StoreIds(db) :
        StoreCall("clear", ClearStore(db, sid),
                  [NoCall EXCEPT !.sid = sid, !.found = FilesOfStore(db, sid) # {}], inject)

Init ==
    /\ db = EmptyDB
    /\ committed = EmptyDB
    /\ stable = EmptyDB
    /\ last = NoCall
    /\ wop = Idle
    /\ mu = [writer |-> FALSE, readers |-> 0]
    /\ rd = [r \in Readers |-> NoReader]
    /\ disk = NoDisk
    /\ ix = NoPass
    /\ wt = NoWatch
    /\ sq = NoSearch
    /\ srv = NoServer
    /\ wk = NoWalk
    /\ ck = NoChunking
    /\ dq = NoDebounce
    /\ tl = NoTools
    /\ adm = NoAdmin

(* The store under I/O errors: any statement of any call may fail. *)
Next ==
    \/ CallCreateStore(TRUE, FaultInputs)
    \/ CallUpsertFile(TRUE, FaultInputs)
    \/ CallDeleteFile(TRUE, FaultInputs)
    \/ CallDeleteStore(TRUE, FaultInputs)
    \/ CallClearStore(TRUE, FaultInputs)

Spec == Init /\ [][Next]_vars

(* The store without I/O errors: calls fail only on the schema's constraints. *)
NextOK ==
    \/ CallCreateStore(FALSE, WideInputs)
    \/ CallUpsertFile(FALSE, WideInputs)
    \/ CallDeleteFile(FALSE, WideInputs)
    \/ CallDeleteStore(FALSE, WideInputs)
    \/ CallClearStore(FALSE, WideInputs)

SpecOK == Init /\ [][NextOK]_vars

----------------------------------------------------------------------------
(* The store under concurrency: one writer whose call runs statement by    *)
(* statement, and readers calling Search.  A reader's query runs on        *)
(* another connection of the pool and sees what has been committed.        *)

\* the tables the concurrent runs start from: store "a" with file "f" of two chunks
Seeded ==
    LET d1 == RunProg("create", CreateStore(EmptyDB, "a", 2), EmptyDB, 0).db
        sh == <<2, "ok", 2>>
    IN  RunProg("upsert",
                UpsertFile(d1, 1, [ext |-> "f", hash |-> 1],
                           ChunkInput(sh, 1), EmbeddingInput(sh, 1)),
                d1, 0).db

ConcInputs ==
    [stores |-> {<<"a", 2>>},
     files  |-> {<<"f", 2>>},
     shapes |-> {<<0, "ok", 2>>, <<1, "ok", 2>>, <<2, "ok", 2>>}]

\* the searches the readers make, as <<query direction, top_k>>
Queries == {<<0, 3>>, <<1, 1>>}

\* s.mu.Lock() and the start of the call
WBegin(kind, prog, call) ==
    /\ wop.kind = "idle"
    /\ WithinRows(db, prog)
    /\ Discipline(kind).lock => (~mu.writer /\ mu.readers = 0)
    /\ mu' = IF Discipline(kind).lock THEN [mu EXCEPT !.writer = TRUE] ELSE mu
    /\ wop' = [kind |-> kind, prog |-> prog, i |-> 1, tx |-> Discipline(kind).tx,
               locked |-> Discipline(kind).lock, call |-> call]
    /\ UNCHANGED <<db, committed, stable, last, rd, disk, ix, wt, sq, srv, wk, ck, dq, tl, adm>>

WBeginUpsertFile ==
    \E fin \in ConcInputs.files, shape \in ConcInputs.shapes :
        WBegin("upsert",
               UpsertFile(db, 1, [ext |-> fin[1], hash |-> fin[2]],
                          ChunkInput(shape, fin[2]), EmbeddingInput(shape, fin[2])),
               [NoCall EXCEPT !.sid = 1, !.ext = fin[1], !.n = shape[1],
                              !.found = FileByExternalID(db, 1, fin[1]) # {}])

WBeginDeleteFile ==
    \E fin \in ConcInputs.files :
        WBegin("delFile", DeleteFile(db, 1, fin[1]),
               [NoCall EXCEPT !.sid = 1, !.ext = fin[1],
                              !.found = FileByExternalID(db, 1, fin[1]) # {}])

\* the next statement of the call; the last one, or a failing one, ends the
\* call and runs the deferred Rollback and Unlock
WStep ==
    /\ wop.kind # "idle"
    /\ \E fail \in BOOLEAN :
          LET s == Step(wop.prog, wop.i, db, stable, wop.tx, fail) IN
          /\ db' = s.db
          /\ committed' = IF wop.tx /\ ~s.end THEN committed ELSE s.db
          /\ stable' = IF s.end THEN s.db ELSE stable
          /\ wop' = IF s.end THEN Idle ELSE [wop EXCEPT !.i = @ + 1]
          /\ mu' = IF s.end /\ wop.locked THEN [mu EXCEPT !.writer = FALSE] ELSE mu
          /\ last' = IF s.end THEN Outcome(wop.kind, wop.call, s) ELSE last
    /\ UNCHANGED <<rd, disk, ix, wt, sq, srv, wk, ck, dq, tl, adm>>

SearchCall(r) ==
    /\ rd[r].pc \in {"idle", "done"}
    /\ \E qk \in Queries :
          rd' = [rd EXCEPT ![r] = [pc |-> "called", sid |-> 1, q |-> qk[1], k |-> qk[2],
                                   res |-> << >>,
                                   during |-> wop.kind = "upsert" /\ wop.call.found]]
    /\ UNCHANGED <<db, committed, stable, last, wop, mu, disk, ix, wt, sq, srv, wk, ck, dq, tl, adm>>

\* s.mu.RLock()
SearchRLock(r) ==
    /\ rd[r].pc = "called"
    /\ Discipline("search").lock => ~mu.writer
    /\ mu' = IF Discipline("search").lock THEN [mu EXCEPT !.readers = @ + 1] ELSE mu
    /\ rd' = [rd EXCEPT ![r].pc = "locked"]
    /\ UNCHANGED <<db, committed, stable, last, wop, disk, ix, wt, sq, srv, wk, ck, dq, tl, adm>>

\* the query, the scan of its rows, and the deferred RUnlock
SearchQuery(r) ==
    /\ rd[r].pc = "locked"
    /\ rd' = [rd EXCEPT ![r].pc = "done",
                        ![r].res = Search(committed, rd[r].sid, rd[r].q, rd[r].k)]
    /\ mu' = IF Discipline("search").lock THEN [mu EXCEPT !.readers = @ - 1] ELSE mu
    /\ UNCHANGED <<db, committed, stable, last, wop, disk, ix, wt, sq, srv, wk, ck, dq, tl, adm>>

InitConc ==
    /\ db = Seeded
    /\ committed = Seeded
    /\ stable = Seeded
    /\ last = NoCall
    /\ wop = Idle
    /\ mu = [writer |-> FALSE, readers |-> 0]
    /\ rd = [r \in Readers |-> NoReader]
    /\ disk = NoDisk
    /\ ix = NoPass
    /\ wt = NoWatch
    /\ sq = NoSearch
    /\ srv = NoServer
    /\ wk = NoWalk
    /\ ck = NoChunking
    /\ dq = NoDebounce
    /\ tl = NoTools
    /\ adm = NoAdmin

NextConc ==
    \/ WBeginUpsertFile
    \/ WBeginDeleteFile
    \/ WStep
    \/ \E r \in Readers : SearchCall(r)
    \/ \E r \in Readers : SearchRLock(r)
    \/ \E r \in Readers : SearchQuery(r)

SpecConc == InitConc /\ [][NextConc]_vars

----------------------------------------------------------------------------
(* The indexer: Index walks the tree once, then handles the files one by   *)
(* one (indexFile): hash-skip, read, chunk, embed in batches, UpsertFile.  *)

WalkOrder == << "f", "g" >>     \* filepath.WalkDir visits in lexical order
Contents == 0..MaxContent       \* 0 is the empty file

\* hashFile / HashContent: the contents modelled have pairwise distinct hashes
HashContent(c) == c

\* TextChunker.Chunk: content c stands for bytes that are cut into c chunks
NumChunks(c) == c

DefaultBatchSize == 50
\* every batch holding one text
BatchSizeOfOne(bs) == 1
BatchSizeOf(bs) == IF bs <= 0 THEN DefaultBatchSize ELSE bs

\* the embedder: the vector of chunk i (counted from 1) of content c, and
\* EmbedBatch on the texts of chunks from+1..to, one vector for each text,
\* in their order
EmbedText(c, i, dims) == [width |-> dims, dir |-> (c + i) % 3]
EmbedBatch(c, from, to, dims) == [j \in 1..(to - from) |-> EmbedText(c, from + j, dims)]

\* the store the passes index into, as <<name, embedder dimensions>>, and the
\* BatchSize options tried
IndexInputs == [store |-> <<"a", 2>>, batchSizes |-> {0, 1}]

\* FileWalker.Walk: the files present, each with the hash of its content now
Walk(d) ==
    LET present == SelectSeq(WalkOrder, LAMBDA p : d.files[p] # Absent)
    IN  [j \in 1..Len(present) |->
            [path |-> present[j], hash |-> HashContent(d.files[present[j]])]]

StoreIs(d) == db' = d /\ committed' = d /\ stable' = d

\* Index returns.  settled (history) is the state of the tree that a pass
\* without any error has indexed in full, -1 when the pass was not such.
Finish(ixr, result) ==
    [ixr EXCEPT !.pc = "done", !.result = result,
                !.settled = IF result = "ok" /\ ixr.progress.errors = 0
                               /\ disk.ops = ixr.fs0
                            THEN disk.ops ELSE -1]

\* indexFile returned nil: ProcessedFiles++, next file
FileDone(ixr) ==
    [ixr EXCEPT !.progress.processed = @ + 1, !.i = @ + 1, !.pc = "loop",
                !.fileEmbeds = 0, !.allEmbeddings = << >>]

\* indexFile returned an error: the pass stops with that error (not what Index does)
FileFailedAborts(ixr) == [ixr EXCEPT !.pc = "done", !.result = "error"]

\* indexFile returned an error: log, Errors++, continue
FileFailed(ixr) ==
    [ixr EXCEPT !.progress.errors = @ + 1, !.i = @ + 1, !.pc = "loop",
                !.fileEmbeds = 0, !.allEmbeddings = << >>]

\* the hash-skip test never passing
UnchangedNever(existing, fi) == FALSE

\* existing != nil && existing.Hash == fi.Hash
Unchanged(existing, fi) == \E e \in existing : e.hash = fi.hash

\* a caller calls Index(ctx, opts)
IndexCall ==
    /\ ix.pc \in {"idle", "done"}
    /\ ix.pass < MaxPasses
    /\ \E force \in BOOLEAN, bs \in IndexInputs.batchSizes :
          ix' = [NoPass EXCEPT !.pc = "start", !.pass = ix.pass + 1, !.force = force,
                               !.batchSize = bs, !.fs0 = disk.ops,
                               !.settledPrev = ix.settled]
    /\ UNCHANGED <<db, committed, stable, last, wop, mu, rd, disk, wt, sq, srv, wk, ck, dq, tl, adm>>

\* Index up to the loop: getOrCreateStore, the context check, the walk
IndexStart ==
    /\ ix.pc = "start"
    /\ \E getErr \in BOOLEAN :
        LET name == IndexInputs.store[1]
            existing == StoreByName(db, name)
        IN
        IF getErr
        THEN ix' = Finish([ix EXCEPT !.log = "getStoreErr"], "error") /\ StoreIs(db)
        ELSE \E failAt \in 0..(IF existing = {} THEN 2 ELSE 0) :
            LET r == IF existing = {}
                     THEN RunProg("create", CreateStore(db, name, IndexInputs.store[2]),
                                  db, failAt)
                     ELSE [ok |-> TRUE, db |-> db, at |-> 0]
                sid == (CHOOSE st \in StoreByName(r.db, name) : TRUE).id
                files == Walk(disk)
            IN
            /\ StoreIs(r.db)
            /\ ix' = IF ~r.ok
                     THEN Finish([ix EXCEPT !.log = "createStoreErr"], "error")
                     ELSE IF ix.ctx = "cancelled"
                     THEN Finish([ix EXCEPT !.sid = sid, !.sawCancel = TRUE,
                                            !.log = "ctxStart"], "cancelled")
                     ELSE [ix EXCEPT !.sid = sid, !.files = files, !.i = 1,
                                     !.progress.total = Len(files), !.pc = "loop"]
    /\ UNCHANGED <<last, wop, mu, rd, disk, wt, sq, srv, wk, ck, dq, tl, adm>>

\* one turn of the loop over the walked files, up to the first batch of
\* indexFile; past the last file, the end of Index: UpdateStoreTimestamp
\* (an error of it is only logged) and the return
IndexNextFile ==
    /\ ix.pc = "loop"
    /\ StoreIs(IF ix.i > Len(ix.files)
               THEN RunProg("touch", UpdateStoreTimestamp(db, ix.sid, Epoch), db, 0).db
               ELSE db)
    /\ IF ix.i > Len(ix.files)
       THEN ix' = Finish([ix EXCEPT !.log = "complete"], "ok")
       ELSE IF ix.ctx = "cancelled"
       THEN ix' = Finish([ix EXCEPT !.sawCancel = TRUE, !.log = "ctxLoop"], "cancelled")
       ELSE \E lookupErr \in {FALSE, ~ix.force}, readErr \in BOOLEAN :
            LET fi == ix.files[ix.i]
                existing == FileByExternalID(db, ix.sid, fi.path)
                ixl == [ix EXCEPT !.lookup = IF ix.force THEN "none"
                                             ELSE IF lookupErr THEN "err" ELSE "ok",
                                  !.lookupFailed = @ \/ lookupErr]
                content == disk.files[fi.path]
            IN
            ix' = IF ~ix.force /\ ~lookupErr /\ Unchanged(existing, fi)
                  THEN FileDone([ixl EXCEPT !.progress.skipped = @ + 1, !.log = "skip"])
                  ELSE IF readErr \/ content = Absent
                  THEN FileFailed([ixl EXCEPT !.log = "readErr"])
                  ELSE IF NumChunks(content) = 0
                  THEN FileDone([ixl EXCEPT !.log = "noChunks"])
                  ELSE [ixl EXCEPT !.pc = "batch", !.content = content,
                                   !.n = NumChunks(content), !.b = 0,
                                   !.progress.totalChunks = @ + NumChunks(content),
                                   !.log = "chunked"]
    /\ UNCHANGED <<last, wop, mu, rd, disk, wt, sq, srv, wk, ck, dq, tl, adm>>

\* one batch of indexFile: the context check, then EmbedBatch
IndexBatch ==
    /\ ix.pc = "batch"
    /\ IF ix.ctx = "cancelled"
       THEN ix' = FileFailed([ix EXCEPT !.sawCancel = TRUE, !.log = "ctxBatch"])
       ELSE \E embedErr \in BOOLEAN :
            LET end == Min(ix.b + BatchSizeOf(ix.batchSize), ix.n)
                ixe == [ix EXCEPT !.embeds = @ + 1, !.fileEmbeds = @ + 1]
            IN
            ix' = IF embedErr
                  THEN FileFailed([ixe EXCEPT !.log = "embedErr"])
                  ELSE [ixe EXCEPT !.b = end,
                                   !.allEmbeddings =
                                       @ \o EmbedBatch(ix.content, ix.b, end,
                                                       IndexInputs.store[2]),
                                   !.progress.processedChunks = @ + (end - ix.b),
                                   !.pc = IF end >= ix.n THEN "upsert" ELSE "batch",
                                   !.log = "embedded"]
    /\ UNCHANGED <<db, committed, stable, last, wop, mu, rd, disk, wt, sq, srv, wk, ck, dq, tl, adm>>

\* the end of indexFile: UpsertFile
IndexUpsert ==
    /\ ix.pc = "upsert"
    /\ LET fi == ix.files[ix.i]
           shape == <<ix.n, "ok", IndexInputs.store[2]>>
           prog == UpsertFile(db, ix.sid, [ext |-> fi.path, hash |-> fi.hash],
                              ChunkInput(shape, ix.content), ix.allEmbeddings)
       IN \E failAt \in 0..Len(prog) :
            LET r == RunProg("upsert", prog, db, failAt) IN
            /\ StoreIs(r.db)
            /\ ix' = IF r.ok THEN FileDone([ix EXCEPT !.log = "indexed"])
                     ELSE FileFailed([ix EXCEPT !.log = "storeErr"])
    /\ UNCHANGED <<last, wop, mu, rd, disk, wt, sq, srv, wk, ck, dq, tl, adm>>

\* the caller cancels the context of the pass
Cancel ==
    /\ ix.pc \in {"start", "loop", "batch", "upsert"}
    /\ ix.ctx = "live"
    /\ ix' = [ix EXCEPT !.ctx = "cancelled"]
    /\ UNCHANGED <<db, committed, stable, last, wop, mu, rd, disk, wt, sq, srv, wk, ck, dq, tl, adm>>

\* somebody writes, creates or removes a file of the tree, between two passes
FsChange ==
    /\ disk.ops < MaxFsOps
    /\ ix.pc \in {"idle", "done"}
    /\ \E p \in Paths, c \in Contents \cup {Absent} :
          /\ c # disk.files[p]
          /\ disk' = [files |-> [disk.files EXCEPT ![p] = c], ops |-> disk.ops + 1]
    /\ UNCHANGED <<db, committed, stable, last, wop, mu, rd, ix, wt, sq, srv, wk, ck, dq, tl, adm>>

InitIndex ==
    /\ db = EmptyDB
    /\ committed = EmptyDB
    /\ stable = EmptyDB
    /\ last = NoCall
    /\ wop = Idle
    /\ mu = [writer |-> FALSE, readers |-> 0]
    /\ rd = [r \in Readers |-> NoReader]
    /\ disk = [files |-> [p \in Paths |-> IF p = "f" THEN 1 ELSE MaxContent], ops |-> 0]
    /\ ix = NoPass
    /\ wt = NoWatch
    /\ sq = NoSearch
    /\ srv = NoServer
    /\ wk = NoWalk
    /\ ck = NoChunking
    /\ dq = NoDebounce
    /\ tl = NoTools
    /\ adm = NoAdmin

NextIndex ==
    \/ IndexCall
    \/ IndexStart
    \/ IndexNextFile
    \/ IndexBatch
    \/ IndexUpsert
    \/ Cancel
    \/ FsChange

SpecIndex == InitIndex /\ [][NextIndex]_vars

----------------------------------------------------------------------------
(* The watcher: fsnotify delivers the events of the tree; handleEvent      *)
(* keeps the latest op of each path in the debounce map; every             *)
(* debounceTime the ticker drains the map (flushDebounced).  I/O and the   *)
(* embedder do not fail in these runs.                                     *)

WatchBatchSize == 50

\* the store the watcher was started for, as <<name, embedder dimensions>>
WatchInputs == [store |-> <<"a", 2>>]

\* Indexer.DeleteFile: GetStore, then the store's DeleteFile
IndexerDeleteFile(d, storeName, relPath) ==
    LET st == StoreByName(d, storeName)
        Result(r) == [ok |-> r.ok, db |-> r.db]
    IN  IF st = {} THEN [ok |-> FALSE, db |-> d]
        ELSE Result(RunProg("delFile",
                            DeleteFile(d, (CHOOSE x \in st : TRUE).id, relPath), d, 0))

\* Indexer.IndexSingleFile: getOrCreateStore, Stat, ReadFile, then indexFile
\* with Force: chunk, embed in batches, UpsertFile; bad are the paths for
\* whose texts EmbedBatch fails
IndexSingleFile(d, files, p, bad) ==
    LET name == WatchInputs.store[1]
        content == files[p]
        n == NumChunks(content)
        shape == <<n, "ok", WatchInputs.store[2]>>
        Result(r) == [ok |-> r.ok, db |-> r.db,
                      embeds |-> (n + WatchBatchSize - 1) \div WatchBatchSize,
                      upserts |-> 1]
        indexFile(d1) ==
            IF content = Absent
            THEN [ok |-> FALSE, db |-> d1, embeds |-> 0, upserts |-> 0]
            ELSE IF n = 0
            THEN [ok |-> TRUE, db |-> d1, embeds |-> 0, upserts |-> 0]
            ELSE IF p \in bad
            THEN [ok |-> FALSE, db |-> d1, embeds |-> 1, upserts |-> 0]
            ELSE Result(RunProg("upsert",
                                UpsertFile(d1, (CHOOSE x \in StoreByName(d1, name) : TRUE).id,
                                           [ext |-> p, hash |-> HashContent(content)],
                                           ChunkInput(shape, content),
                                           EmbeddingInput(shape, content)),
                                d1, 0))
    IN  indexFile(IF StoreByName(d, name) # {} THEN d
                  ELSE RunProg("create", CreateStore(d, name, WatchInputs.store[2]),
                               d, 0).db)

\* isIndexableFile: a known extension and language (every path here has
\* them), and os.Stat has to succeed
isIndexableFile(files, p) == files[p] # Absent

\* handleDelete
handleDelete(d, p) ==
    LET Result(r) == [ok |-> r.ok, db |-> r.db, acts |-> [NoActs EXCEPT !.deletes = 1]]
    IN  Result(IndexerDeleteFile(d, WatchInputs.store[1], p))

\* handleModify: DeleteFile (its error dropped), then IndexSingleFile
handleModify(d, files, p, bad) ==
    LET Result(r2) == [ok |-> r2.ok, db |-> r2.db,
                       acts |-> [deletes |-> 1, indexes |-> 1, embeds |-> r2.embeds,
                                 upserts |-> r2.upserts]]
    IN  Result(IndexSingleFile(IndexerDeleteFile(d, WatchInputs.store[1], p).db,
                                   files, p, bad))

\* the loop of flushDebounced over the snapshot of the map, in the order the
\* map iteration gives; st is [db, acts, emitted]
RECURSIVE Drain(_, _, _, _, _, _)
Drain(order, k, snapshot, files, bad, st) ==
    IF k > Len(order) THEN st
    ELSE LET p == order[k]
             op == snapshot[p]
             ev(r) == IF ~r.ok THEN {}
                      ELSE IF op \in {"Remove", "Rename"} THEN {<<"delete", p>>}
                      ELSE {<<"index", p>>}
             Rest(r) == Drain(order, k + 1, snapshot, files, bad,
                              [db |-> r.db, acts |-> [st.acts EXCEPT ![p] = r.acts],
                               emitted |-> st.emitted \cup ev(r)])
         IN  Rest(IF op \in {"Remove", "Rename"} THEN handleDelete(st.db, p)
                  ELSE IF op \in {"Create", "Write"} THEN handleModify(st.db, files, p, bad)
                  ELSE [ok |-> FALSE, db |-> st.db, acts |-> NoActs])

\* a change of the tree, and the event fsnotify queues for it
FsEvent(p, c, op) ==
    /\ disk.ops < MaxEvents
    /\ disk' = [files |-> [disk.files EXCEPT ![p] = c], ops |-> disk.ops + 1]
    /\ wt' = [wt EXCEPT !.events = Append(@, [path |-> p, op |-> op]),
                        !.owed[p] = IF op = "Create" THEN "none" ELSE @]
    /\ UNCHANGED <<db, committed, stable, last, wop, mu, rd, ix, sq, srv, wk, ck, dq, tl, adm>>

FsCreate ==
    \E p \in Paths, c \in Contents : disk.files[p] = Absent /\ FsEvent(p, c, "Create")

FsWrite ==
    \E p \in Paths, c \in Contents :
        disk.files[p] # Absent /\ c # disk.files[p] /\ FsEvent(p, c, "Write")

FsRemove ==
    \E p \in Paths : disk.files[p] # Absent /\ FsEvent(p, Absent, "Remove")

\* the file is renamed to a name outside the paths watched
FsRename ==
    \E p \in Paths : disk.files[p] # Absent /\ FsEvent(p, Absent, "Rename")

FsChmod ==
    \E p \in Paths : disk.files[p] # Absent /\ FsEvent(p, disk.files[p], "Chmod")

\* Start's loop receives the next event: handleEvent
HandleEvent ==
    /\ wt.events # << >>
    /\ LET e == Head(wt.events)
           p == e.path
           gone == e.op \in {"Remove", "Rename"} /\ disk.files[p] = Absent
                   /\ \E st \in StoreByName(db, WatchInputs.store[1]) :
                          FileByExternalID(db, st.id, p) # {}
       IN wt' = [wt EXCEPT !.events = Tail(@),
                           !.debounce[p] = IF isIndexableFile(disk.files, p)
                                           THEN e.op ELSE @,
                           !.window[p] = Append(@, e.op),
                           !.owed[p] = IF gone THEN "delivered" ELSE @]
    /\ UNCHANGED <<db, committed, stable, last, wop, mu, rd, disk, ix, sq, srv, wk, ck, dq, tl, adm>>

\* the ticker fires: flushDebounced
Tick ==
    /\ \E order \in {<<"f", "g">>, <<"g", "f">>}, bad \in SUBSET Paths :
        \E st \in {Drain(SelectSeq(order, LAMBDA p : wt.debounce[p] # "none"), 1,
                         wt.debounce, disk.files, bad,
                         [db |-> db, acts |-> [p \in Paths |-> NoActs],
                          emitted |-> {}])} :
        /\ StoreIs(st.db)
        /\ wt' = [wt EXCEPT !.debounce = [p \in Paths |-> "none"],
                            !.closed = wt.window,
                            !.window = [p \in Paths |-> << >>],
                            !.acts = st.acts,
                            !.emitted = st.emitted,
                            !.owed = [p \in Paths |->
                                        IF wt.owed[p] = "delivered" THEN "drained"
                                        ELSE "none"]]
    /\ UNCHANGED <<last, wop, mu, rd, disk, ix, sq, srv, wk, ck, dq, tl, adm>>

\* the watcher starts on a tree that has been indexed: file "f" of one chunk
InitWatch ==
    LET files == [p \in Paths |-> IF p = "f" THEN 1 ELSE Absent]
        d == IndexSingleFile(EmptyDB, files, "f", {}).db
    IN
    /\ db = d
    /\ committed = d
    /\ stable = d
    /\ last = NoCall
    /\ wop = Idle
    /\ mu = [writer |-> FALSE, readers |-> 0]
    /\ rd = [r \in Readers |-> NoReader]
    /\ disk = [files |-> files, ops |-> 0]
    /\ ix = NoPass
    /\ wt = NoWatch
    /\ sq = NoSearch
    /\ srv = NoServer
    /\ wk = NoWalk
    /\ ck = NoChunking
    /\ dq = NoDebounce
    /\ tl = NoTools
    /\ adm = NoAdmin

NextWatch ==
    \/ FsCreate
    \/ FsWrite
    \/ FsRemove
    \/ FsRename
    \/ FsChmod
    \/ HandleEvent
    \/ Tick

SpecWatch == InitWatch /\ [][NextWatch]_vars

----------------------------------------------------------------------------
(* The searcher: Search embeds the query and asks one store for its        *)
(* nearest chunks; SearchAll asks every store and merges.  The embedder's  *)
(* answer (qvec) and the failures of the embedder and the store are        *)
(* inputs.  ContextLines is 0 in these runs.                               *)

DefaultTopK == 10
TopKOf(k) == IF k <= 0 THEN DefaultTopK ELSE k

\* a SearchResult as a Result; FilePath is the store's root with the
\* relative path
ToResult(sr) ==
    [path |-> <<sr.store, sr.ext>>, idx |-> sr.idx, content |-> sr.content,
     score |-> sr.score, distance |-> sr.distance]

\* the loop over searchResults: the MinScore filter and the conversion
Convert(rows, minScore) ==
    LET kept == SelectSeq(rows, LAMBDA sr : ~(sr.score < minScore))
    IN  [i \in 1..Len(kept) |-> ToResult(kept[i])]

Swap(rs, i, j) == [rs EXCEPT ![i] = rs[j], ![j] = rs[i]]

RECURSIVE sortInner(_, _, _)
sortInner(rs, i, j) ==
    IF j > Len(rs) THEN rs
    ELSE sortInner(IF rs[j].score > rs[i].score THEN Swap(rs, i, j) ELSE rs, i, j + 1)

RECURSIVE sortOuter(_, _)
sortOuter(rs, i) ==
    IF i > Len(rs) THEN rs ELSE sortOuter(sortInner(rs, i, i + 1), i + 1)

\* sortByScore left out: the results stay in the order the stores gave them
sortByScoreNone(results) == results

sortByScore(results) == sortOuter(results, 1)

\* the names a store can have, in the order of ORDER BY name
StoreNames == << "a", "b" >>

ListStores(d) ==
    LET present == SelectSeq(StoreNames, LAMBDA n : StoreByName(d, n) # {})
    IN  [i \in 1..Len(present) |-> CHOOSE x \in StoreByName(d, present[i]) : TRUE]

\* what a Searcher call returns
SearchFailed(e, n) ==
    [err |-> e, results |-> << >>, raw |-> << >>, embeds |-> n, searched |-> {}]

\* Searcher.Search
SearcherSearch(d, query, opts, env) ==
    LET st == StoreByName(d, opts.storeName)
        Done(sid, rows) ==
            [err |-> "", results |-> Convert(rows, opts.minScore), raw |-> rows,
             embeds |-> 1, searched |-> {sid}]
        OnStore(sid) == Done(sid, Search(d, sid, env.qvec, TopKOf(opts.topK)))
    IN  IF query = "" THEN SearchFailed("emptyQuery", 0)
        ELSE IF env.fault = "getStore" THEN SearchFailed("getStore", 0)
        ELSE IF st = {} THEN SearchFailed("storeNotFound", 0)
        ELSE IF env.fault = "embed" THEN SearchFailed("embed", 1)
        ELSE IF env.fault = "search" THEN SearchFailed("search", 1)
        ELSE OnStore((CHOOSE x \in st : TRUE).id)

\* the loop of SearchAll over the stores: a store whose Search fails is
\* logged and passed over
RECURSIVE SearchEach(_, _, _, _, _, _)
SearchEach(d, stores, i, opts, env, acc) ==
    IF i > Len(stores) THEN acc
    ELSE IF stores[i].id \in env.failing
    THEN SearchEach(d, stores, i + 1, opts, env, acc)
    ELSE LET Add(rows) ==
                 SearchEach(d, stores, i + 1, opts, env,
                            [all |-> acc.all \o Convert(rows, opts.minScore),
                             raw |-> acc.raw \o rows,
                             searched |-> acc.searched \cup {stores[i].id}])
         IN  Add(Search(d, stores[i].id, env.qvec, TopKOf(opts.topK)))

\* Searcher.SearchAll
SearcherSearchAll(d, query, opts, env) ==
    LET Done(acc) ==
            [err |-> "",
             results |-> SubSeq(sortByScore(acc.all), 1,
                                Min(TopKOf(opts.topK), Len(acc.all))),
             raw |-> acc.raw, embeds |-> 1, searched |-> acc.searched]
        Each(stores) ==
            IF Len(stores) = 0 THEN SearchFailed("noStores", 0)
            ELSE IF env.fault = "embed" THEN SearchFailed("embed", 1)
            ELSE Done(SearchEach(d, stores, 1, opts, env,
                                 [all |-> << >>, raw |-> << >>, searched |-> {}]))
    IN  IF env.fault = "list" THEN SearchFailed("listStores", 0)
        ELSE Each(ListStores(d))

\* The stores the searches run on: two stores of the same width, filled by
\* UpsertFile calls of one or two chunks.
SearchInputs ==
    [stores |-> {<<"a", 2>>, <<"b", 2>>},
     files  |-> {<<"f", 1>>},
     sizes  |-> {1, 2},
     times  |-> {Epoch},
     maxChunks |-> MaxHits]

\* the searches made: SearchOptions, the query, and what the embedder answers
QueryInputs ==
    [queries |-> {"", "q"}, qvecs |-> {0, 1}, names |-> {"a", "b", "zz"},
     topKs |-> {0, 1, 2}, minScores |-> {-1, 0},
     searchFaults |-> {"none", "getStore", "embed", "search"},
     allFaults |-> {<<"none", {}>>, <<"list", {}>>, <<"embed", {}>>,
                    <<"none", {1}>>, <<"none", {2}>>}]

\* a store call that no I/O error hits, made while no Searcher result is held
SeedCall(kind, prog, call, in) ==
    /\ sq.op = "none"
    /\ db.seq.chunk + Cardinality({i \in 1..Len(prog) : prog[i].k = "insChunk"})
          <= in.maxChunks
    /\ \E r \in {RunProg(kind, prog, db, 0)} :
          /\ StoreIs(r.db)
          /\ last' = Outcome(kind, call, r)
    /\ UNCHANGED <<wop, mu, rd, disk, ix, wt, sq, srv, wk, ck, dq, tl, adm>>

SeedCreateStore(in) ==
    \E st \in in.stores, now \in in.times :
        SeedCall("create", CreateStoreAt(db, st[1], st[2], now),
                 [NoCall EXCEPT !.sid = db.seq.store + 1], in)

SeedUpsertFile(in) ==
    \E sid \in 1..db.seq.store, fin \in in.files, n \in in.sizes :
        SeedCall("upsert",
                 UpsertFile(db, sid, [ext |-> fin[1], hash |-> fin[2]],
                            ChunkInput(<<n, "ok", 2>>, fin[2]),
                            EmbeddingInput(<<n, "ok", 2>>, fin[2])),
                 [NoCall EXCEPT !.sid = sid, !.ext = fin[1], !.n = n,
                                !.found = FileByExternalID(db, sid, fin[1]) # {}], in)

SearcherCall(op, query, opts, env, r) ==
    /\ sq.op = "none"
    /\ sq' = [op |-> op, query |-> query, storeName |-> opts.storeName,
              topK |-> opts.topK, minScore |-> opts.minScore, qvec |-> env.qvec,
              fault |-> env.fault, failing |-> env.failing,
              err |-> r.err, results |-> r.results, raw |-> r.raw,
              embeds |-> r.embeds, searched |-> r.searched]
    /\ UNCHANGED <<db, committed, stable, last, wop, mu, rd, disk, ix, wt, srv, wk, ck, dq, tl, adm>>

\* a call that fails is made with one choice of the other arguments
Plain(qvec, name, topK, minScore) ==
    qvec = 0 /\ name = "a" /\ topK = 1 /\ minScore = 0

CallSearch ==
    \E query \in QueryInputs.queries, qvec \in QueryInputs.qvecs,
       name \in QueryInputs.names, topK \in QueryInputs.topKs,
       minScore \in QueryInputs.minScores, fault \in QueryInputs.searchFaults :
        /\ (query = "" \/ fault # "none") => Plain(qvec, name, topK, minScore)
        /\ query = "" => fault = "none"
        /\ \E opts \in {[storeName |-> name, topK |-> topK, minScore |-> minScore]},
              env \in {[qvec |-> qvec, fault |-> fault, failing |-> {}]} :
               \E r \in {SearcherSearch(db, query, opts, env)} :
                   SearcherCall("search", query, opts, env, r)

CallSearchAll ==
    \E query \in QueryInputs.queries, qvec \in QueryInputs.qvecs,
       topK \in QueryInputs.topKs, minScore \in QueryInputs.minScores,
       fault \in QueryInputs.allFaults :
        /\ (query = "" \/ fault[1] # "none") => Plain(qvec, "a", topK, minScore)
        /\ query = "" => fault = <<"none", {}>>
        /\ \E opts \in {[storeName |-> "", topK |-> topK, minScore |-> minScore]},
              env \in {[qvec |-> qvec, fault |-> fault[1], failing |-> fault[2]]} :
               \E r \in {SearcherSearchAll(db, query, opts, env)} :
                   SearcherCall("searchAll", query, opts, env, r)

\* the caller takes the result
SearcherReturn ==
    /\ sq.op # "none"
    /\ sq' = NoSearch
    /\ UNCHANGED <<db, committed, stable, last, wop, mu, rd, disk, ix, wt, srv, wk, ck, dq, tl, adm>>

InitSearch == Init

NextSearch ==
    \/ SeedCreateStore(SearchInputs)
    \/ SeedUpsertFile(SearchInputs)
    \/ CallSearch
    \/ CallSearchAll
    \/ SearcherReturn

SpecSearch == InitSearch /\ [][NextSearch]_vars

----------------------------------------------------------------------------
(* The tool server: Run reads stdin line by line and answers on stdout.    *)
(* A line is blank, or text that json.Unmarshal refuses, or a request      *)
(* object; the client numbers its requests, the id of a request being the  *)
(* number of its line.  The context is not cancelled in these runs.        *)

ErrorCodeParse == -32700
ErrorCodeInvalidRequest == -32600
ErrorCodeMethodNotFound == -32601
ErrorCodeInvalidParams == -32602
ErrorCodeInternal == -32603

\* ids as Go values and as members of the JSON written: a nil ID is left
\* out by `json:"id,omitempty"`
Nil == 0
Omitted == -1
Null == 0

\* json.Marshal of Response.ID
MarshalID(id) == IF id = Nil THEN Omitted ELSE id

\* what the tools work with: the working directory is named "a", the
\* embedder has 2 dimensions and answers the query with qvec; no limit is
\* given in the arguments
ServerInputs == [store |-> <<"a", 2>>, limit |-> 10, qvec |-> 2]

\* the working directory of the server, and the path argument's default "."
Cwd == <<"x", ServerInputs.store[1]>>
Dot == <<".">>

\* filepath.Abs
filepathAbs(path) == IF path = Dot THEN Cwd ELSE path

\* args["path"] when it is a string and not empty, "." otherwise
ArgPath(args) ==
    IF "path" \in DOMAIN args /\ args.path # << >> THEN args.path ELSE Dot

\* storeName := filepath.Base(absPath)
StoreNameOf(args) == BaseName(filepathAbs(ArgPath(args)))

NoParams == [shape |-> "missing", name |-> "", query |-> ""]
BadParams == [shape |-> "bad", name |-> "", query |-> ""]
CallParams(name, query) == [shape |-> "ok", name |-> name, query |-> query]

Req(method, params) == [text |-> "json", method |-> method, params |-> params]

\* the lines a client sends
LineInputs ==
    {[text |-> "blank", method |-> "", params |-> NoParams],
     [text |-> "garbage", method |-> "", params |-> NoParams],
     Req("initialize", NoParams), Req("initialize", BadParams),
     Req("initialize", CallParams("", "")),
     Req("initialized", NoParams),
     Req("tools/list", NoParams), Req("ping", NoParams), Req("nope", NoParams),
     Req("tools/call", NoParams), Req("tools/call", BadParams),
     Req("tools/call", CallParams("other", "")),
     Req("tools/call", CallParams("lgrep_search", "")),
     Req("tools/call", CallParams("lgrep_search", "q")),
     Req("tools/call", CallParams("lgrep_index", ""))}

\* what can go wrong in a tool: filepath.Abs, the GetStore of toolSearch,
\* Index as a whole (getOrCreateStore), the embedder while indexing, the
\* Searcher's embedder or store
Scenarios == {"none", "abs", "lookup", "indexStore", "indexEmbed", "searchEmbed",
              "searchStore"}

\* indexFile of a pass that is not cancelled
IndexOneFile(d, sid, fi, content, force, dims, embedOk) ==
    LET n == NumChunks(content)
        Result(r) == [ok |-> r.ok, db |-> r.db]
    IN  IF ~force /\ Unchanged(FileByExternalID(d, sid, fi.path), fi)
        THEN [ok |-> TRUE, db |-> d]
        ELSE IF n = 0 THEN [ok |-> TRUE, db |-> d]
        ELSE IF ~embedOk THEN [ok |-> FALSE, db |-> d]
        ELSE Result(RunProg("upsert",
                            UpsertFile(d, sid, [ext |-> fi.path, hash |-> fi.hash],
                                       ChunkInput(<<n, "ok", dims>>, content),
                                       EmbeddingInput(<<n, "ok", dims>>, content)),
                            d, 0))

\* the loop of Index over the walked files
RECURSIVE IndexFiles(_, _, _, _, _, _, _)
IndexFiles(d, sid, files, i, tree, dims, embedOk) ==
    IF i > Len(files) THEN d
    ELSE LET Rest(r) == IndexFiles(r.db, sid, files, i + 1, tree, dims, embedOk)
         IN  Rest(IndexOneFile(d, sid, files[i], tree.files[files[i].path], FALSE,
                               dims, embedOk))

\* Index(ctx, opts) with Force false, by a caller that does not cancel
IndexRun(d, tree, name, dims, scenario) ==
    LET Touched(d2, sid) ==
            [ok |-> TRUE,
             db |-> RunProg("touch", UpdateStoreTimestamp(d2, sid, Epoch), d2, 0).db]
        Loop(d1) ==
            Touched(IndexFiles(d1, (CHOOSE x \in StoreByName(d1, name) : TRUE).id,
                               Walk(tree), 1, tree, dims, scenario # "indexEmbed"),
                    (CHOOSE x \in StoreByName(d1, name) : TRUE).id)
    IN  IF scenario = "indexStore" THEN [ok |-> FALSE, db |-> d]
        ELSE IF StoreByName(d, name) # {} THEN Loop(d)
        ELSE Loop(RunProg("create", CreateStore(d, name, dims), d, 0).db)

\* a tool result that never says isError
ToolResultNeverError(text, isError, d, runs, searches, hits) ==
    [text |-> text, isError |-> FALSE, db |-> d, indexRuns |-> runs,
     searches |-> searches, hits |-> hits, files |-> << >>]

\* what a tool returns: the text (by its kind), isError, and what it did
ToolResult(text, isError, d, runs, searches, hits) ==
    [text |-> text, isError |-> isError, db |-> d, indexRuns |-> runs,
     searches |-> searches, hits |-> hits, files |-> << >>]

\* toolSearch; tree is what is below the resolved path, files are the
\* RelativePath of the results written
toolSearch(d, tree, args, scenario) ==
    LET name == StoreNameOf(args)
        opts == [storeName |-> name, topK |-> ServerInputs.limit, minScore |-> 0]
        env == [qvec |-> ServerInputs.qvec, failing |-> {},
                fault |-> IF scenario = "searchEmbed" THEN "embed"
                          ELSE IF scenario = "searchStore" THEN "search" ELSE "none"]
        Searched(r, d2, runs) ==
            IF r.err # "" THEN ToolResult("searchFailed", TRUE, d2, runs, 1, 0)
            ELSE IF Len(r.results) = 0
            THEN ToolResult("No results found.", FALSE, d2, runs, 1, 0)
            ELSE [ToolResult("found", FALSE, d2, runs, 1, Len(r.results))
                    EXCEPT !.files = [i \in 1..Len(r.results) |-> r.results[i].path[2]]]
        Indexed(ir) ==
            IF ~ir.ok THEN ToolResult("indexFailed", TRUE, ir.db, 1, 0, 0)
            ELSE Searched(SearcherSearch(ir.db, args.query, opts, env), ir.db, 1)
    IN  IF args.query = "" THEN ToolResult("queryRequired", TRUE, d, 0, 0, 0)
        ELSE IF scenario = "abs" THEN ToolResult("resolveFailed", TRUE, d, 0, 0, 0)
        ELSE IF scenario # "lookup" /\ StoreByName(d, name) # {}
        THEN Searched(SearcherSearch(d, args.query, opts, env), d, 0)
        ELSE Indexed(IndexRun(d, tree, name, ServerInputs.store[2], scenario))

\* toolIndex; tree is what is below the resolved path
toolIndex(d, tree, args, scenario) ==
    LET Indexed(ir) ==
            IF ~ir.ok THEN ToolResult("indexFailed", TRUE, ir.db, 1, 0, 0)
            ELSE ToolResult("indexed", FALSE, ir.db, 1, 0, 0)
    IN  IF scenario = "abs" THEN ToolResult("resolveFailed", TRUE, d, 0, 0, 0)
        ELSE Indexed(IndexRun(d, tree, StoreNameOf(args), ServerInputs.store[2],
                              scenario))

\* what a handler returns: a result or an error, and what it did
Handled(result, err, t) == [result |-> result, err |-> err, tool |-> t]
NoTouch(d) == ToolResult("", FALSE, d, 0, 0, 0)

\* handleCallTool
handleCallTool(d, tree, params, scenario) ==
    LET Result(t) == Handled("tool", "", t) IN
    IF params.shape # "ok" THEN Handled("", "invalid params", NoTouch(d))
    ELSE IF params.name = "lgrep_search" THEN Result(toolSearch(d, tree, params, scenario))
    ELSE IF params.name = "lgrep_index" THEN Result(toolIndex(d, tree, params, scenario))
    ELSE Result(ToolResult("unknownTool", TRUE, d, 0, 0, 0))

\* handleInitialize
handleInitialize(d, params) ==
    IF params.shape = "bad" THEN Handled("", "invalid params", NoTouch(d))
    ELSE Handled("initialize", "", NoTouch(d))

\* a response as written: the id member, the error code (0 in a result),
\* and of a result its kind, its text and isError
Response(id, code, result, t) ==
    [id |-> MarshalID(id), code |-> code, result |-> result, text |-> t.text,
     isError |-> t.isError]

\* every error sent as an internal error
sendErrorInternal(id, code) ==
    << Response(id, ErrorCodeInternal, "", NoTouch(EmptyDB)) >>

sendError(id, code) == << Response(id, code, "", NoTouch(EmptyDB)) >>
sendResult(id, h) == << Response(id, 0, h.result, h.tool) >>

\* handleRequest: what is written, the tables after it, whether it set the
\* initialized flag
handleRequest(d, tree, req, id, scenario) ==
    LET Answer(h) ==
            IF h.err # ""
            THEN [out |-> sendError(id, ErrorCodeInternal), db |-> h.tool.db,
                  tool |-> h.tool, flag |-> FALSE]
            ELSE [out |-> sendResult(id, h), db |-> h.tool.db, tool |-> h.tool,
                  flag |-> FALSE]
    IN  CASE req.method = "initialize" -> Answer(handleInitialize(d, req.params))
          [] req.method = "initialized" ->
                [out |-> << >>, db |-> d, tool |-> NoTouch(d), flag |-> TRUE]
          [] req.method = "tools/list" -> Answer(Handled("tools", "", NoTouch(d)))
          [] req.method = "tools/call" ->
                Answer(handleCallTool(d, tree, req.params, scenario))
          [] req.method = "ping" -> Answer(Handled("empty", "", NoTouch(d)))
          [] OTHER -> [out |-> sendError(id, ErrorCodeMethodNotFound), db |-> d,
                       tool |-> NoTouch(d), flag |-> FALSE]

\* one turn of Run's loop on a line read: TrimSpace, Unmarshal, handleRequest
ServeLine ==
    /\ srv.pc = "serving"
    /\ Len(srv.read) < MaxLines
    /\ \E line \in LineInputs, scenario \in Scenarios :
        /\ scenario # "none" =>
              (line.method = "tools/call" /\ line.params.shape = "ok"
               /\ \/ line.params.name = "lgrep_search" /\ line.params.query # ""
                  \/ line.params.name = "lgrep_index"
                     /\ scenario \in {"abs", "indexStore", "indexEmbed"})
        /\ \E id \in {Len(srv.read) + 1} :
           \E h \in {IF line.text = "blank"
                     THEN [out |-> << >>, db |-> db, tool |-> NoTouch(db),
                           flag |-> FALSE]
                     ELSE IF line.text = "garbage"
                     THEN [out |-> sendError(Nil, ErrorCodeParse), db |-> db,
                           tool |-> NoTouch(db), flag |-> FALSE]
                     ELSE handleRequest(db, disk, line, id, scenario)} :
            /\ StoreIs(h.db)
            /\ srv' = [srv EXCEPT
                         !.initialized = @ \/ h.flag,
                         !.read = Append(@, line),
                         !.out = @ \o h.out,
                         !.tool = IF line.method = "tools/call" /\ line.text = "json"
                                     /\ line.params.shape = "ok"
                                  THEN [name |-> line.params.name,
                                        query |-> line.params.query,
                                        scenario |-> scenario,
                                        present |-> StoreByName(db, ServerInputs.store[1]) # {},
                                        indexRuns |-> h.tool.indexRuns,
                                        searches |-> h.tool.searches,
                                        hits |-> h.tool.hits]
                                  ELSE NoTool]
    /\ UNCHANGED <<last, wop, mu, rd, disk, ix, wt, sq, wk, ck, dq, tl, adm>>

\* ReadString returns io.EOF: Run returns nil
ServeEOF ==
    /\ srv.pc = "serving"
    /\ srv' = [srv EXCEPT !.pc = "returned", !.err = "nil"]
    /\ UNCHANGED <<db, committed, stable, last, wop, mu, rd, disk, ix, wt, sq, wk, ck, dq, tl, adm>>

\* the server starts in a tree with file "f" of one chunk and an empty file "g"
InitServer ==
    /\ db = EmptyDB
    /\ committed = EmptyDB
    /\ stable = EmptyDB
    /\ last = NoCall
    /\ wop = Idle
    /\ mu = [writer |-> FALSE, readers |-> 0]
    /\ rd = [r \in Readers |-> NoReader]
    /\ disk = [files |-> [p \in Paths |-> IF p = "f" THEN 1 ELSE 0], ops |-> 0]
    /\ ix = NoPass
    /\ wt = NoWatch
    /\ sq = NoSearch
    /\ srv = NoServer
    /\ wk = NoWalk
    /\ ck = NoChunking
    /\ dq = NoDebounce
    /\ tl = NoTools
    /\ adm = NoAdmin

NextServer ==
    \/ ServeLine
    \/ ServeEOF

SpecServer == InitServer /\ [][NextServer]_vars

----------------------------------------------------------------------------
(* The tools on several directories: lgrep_index and lgrep_search are      *)
(* called with a path argument, on directories "x/a" and "y/a" of one      *)
(* name and "x/b" of another. The trees do not change between the calls.   *)

\* a tree below a directory: each path absent or a file of one or two chunks
DirTrees == {[files |-> fs, ops |-> 0] : fs \in [Paths -> {Absent, 1, 2}]}

\* the arguments of a call
PathArgs(name, query, path) ==
    [shape |-> "ok", name |-> name, query |-> query, path |-> path]

\* what a call leaves in tl
Called(tool, path, t) ==
    [tl EXCEPT !.calls = @ + 1, !.tool = tool, !.path = path,
               !.isError = t.isError, !.text = t.text, !.files = t.files]

\* tools/call of lgrep_index with a path
ToolIndexCall ==
    /\ tl.calls < MaxLines
    /\ \E path \in Dirs :
       \E t \in {toolIndex(db, tl.trees[filepathAbs(path)],
                           PathArgs("lgrep_index", "", path), "none")} :
        /\ StoreIs(t.db)
        /\ tl' = Called("lgrep_index", path, t)
    /\ UNCHANGED <<last, wop, mu, rd, disk, ix, wt, sq, srv, wk, ck, dq, adm>>

\* tools/call of lgrep_search with a path
ToolSearchCall ==
    /\ tl.calls < MaxLines
    /\ \E path \in Dirs :
       \E t \in {toolSearch(db, tl.trees[filepathAbs(path)],
                            PathArgs("lgrep_search", "q", path), "none")} :
        /\ StoreIs(t.db)
        /\ tl' = Called("lgrep_search", path, t)
    /\ UNCHANGED <<last, wop, mu, rd, disk, ix, wt, sq, srv, wk, ck, dq, adm>>

InitTools ==
    /\ db = EmptyDB /\ committed = EmptyDB /\ stable = EmptyDB
    /\ last = NoCall /\ wop = Idle
    /\ mu = [writer |-> FALSE, readers |-> 0]
    /\ rd = [r \in Readers |-> NoReader]
    /\ disk = [files |-> [p \in Paths |-> Absent], ops |-> 0]
    /\ ix = NoPass /\ wt = NoWatch
    /\ sq = NoSearch /\ srv = NoServer /\ wk = NoWalk /\ ck = NoChunking
    /\ dq = NoDebounce /\ adm = NoAdmin
    /\ \E xa \in DirTrees, ya \in DirTrees :
         tl = [NoTools EXCEPT !.trees[<<"x", "a">>] = xa, !.trees[<<"y", "a">>] = ya,
                              !.trees[<<"x", "b">>] = [files |-> [p \in Paths |-> 1],
                                                        ops |-> 0]]

NextTools ==
    \/ ToolIndexCall
    \/ ToolSearchCall

SpecTools == InitTools /\ [][NextTools]_vars

----------------------------------------------------------------------------
(* The Indexer called by store name: Index fills stores "a" and "b",       *)
(* DeleteFile, Clear and Stats are called with the name of a store that is *)
(* there or not, the lookup of the store failing or not.                   *)

AdminInputs == [names |-> {"a", "b"}, dims |-> 2, faults |-> {"none", "getStore"}]

\* what a call of the Indexer returns: the error, whether it panicked, the
\* tables after it
Returned(err, d) == [err |-> err, panic |-> FALSE, db |-> d, stats |-> NoAdmin.stats]
Panicked(d) == [err |-> "", panic |-> TRUE, db |-> d, stats |-> NoAdmin.stats]

\* SQLiteStore.GetStats: the files of the store and their chunks, counted
GetStats(d, storeID) ==
    [files |-> Cardinality(FilesOfStore(d, storeID)),
     chunks |-> Cardinality(UNION {ChunksOfFile(d, f.id) : f \in FilesOfStore(d, storeID)})]

\* Indexer.DeleteFile as a call: both the failed lookup and the nil record
\* answer "store not found"
AdminDeleteFile(d, storeName, relPath, fault) ==
    LET Ran(r) == Returned(IF r.ok THEN "" ELSE "store not found", r.db)
    IN  IF fault = "getStore" THEN Returned("store not found", d)
        ELSE Ran(IndexerDeleteFile(d, storeName, relPath))

\* Indexer.Clear: the error of GetStore is tested, the record is not;
\* storeRecord.ID of a nil record is a nil pointer dereference
IndexerClear(d, storeName, fault) ==
    LET st == StoreByName(d, storeName)
        Ran(r) == Returned(IF r.ok THEN "" ELSE "clear", r.db)
    IN  IF fault = "getStore" THEN Returned("store not found", d)
        ELSE IF st = {} THEN Panicked(d)
        ELSE Ran(RunProg("clear", ClearStore(d, (CHOOSE x \in st : TRUE).id), d, 0))

\* Indexer.Stats: as Clear, then GetStats
IndexerStats(d, storeName, fault) ==
    LET st == StoreByName(d, storeName)
    IN  IF fault = "getStore" THEN Returned("store not found", d)
        ELSE IF st = {} THEN Panicked(d)
        ELSE [Returned("", d) EXCEPT
                !.stats = GetStats(d, (CHOOSE x \in st : TRUE).id)]

\* what a call leaves in adm
AdminCalled(op, name, r) ==
    [adm EXCEPT !.pc = IF r.panic THEN "panicked" ELSE "idle",
                !.calls = @ + 1, !.op = op, !.name = name,
                !.present = StoreByName(db, name) # {},
                !.err = r.err, !.changed = r.db # db, !.stats = r.stats]

AdminUnchanged == UNCHANGED <<last, wop, mu, rd, disk, ix, wt, sq, srv, wk, ck, dq, tl>>

\* Index of a tree into the store of a name
AdminIndex ==
    /\ adm.pc = "idle" /\ adm.calls < MaxCalls
    /\ \E name \in AdminInputs.names, tree \in DirTrees :
       \E r \in {IndexRun(db, tree, name, AdminInputs.dims, "none")} :
        /\ StoreIs(r.db)
        /\ adm' = AdminCalled("Index", name,
                              Returned(IF r.ok THEN "" ELSE "index", r.db))
    /\ AdminUnchanged

DeleteFileCall ==
    /\ adm.pc = "idle" /\ adm.calls < MaxCalls
    /\ \E name \in AdminInputs.names, p \in Paths, fault \in AdminInputs.faults :
       \E r \in {AdminDeleteFile(db, name, p, fault)} :
        /\ StoreIs(r.db)
        /\ adm' = AdminCalled("DeleteFile", name, r)
    /\ AdminUnchanged

ClearCall ==
    /\ adm.pc = "idle" /\ adm.calls < MaxCalls
    /\ \E name \in AdminInputs.names, fault \in AdminInputs.faults :
       \E r \in {IndexerClear(db, name, fault)} :
        /\ StoreIs(r.db)
        /\ adm' = AdminCalled("Clear", name, r)
    /\ AdminUnchanged

StatsCall ==
    /\ adm.pc = "idle" /\ adm.calls < MaxCalls
    /\ \E name \in AdminInputs.names, fault \in AdminInputs.faults :
       \E r \in {IndexerStats(db, name, fault)} :
        /\ StoreIs(r.db)
        /\ adm' = AdminCalled("Stats", name, r)
    /\ AdminUnchanged

InitAdmin == Init

NextAdmin ==
    \/ AdminIndex
    \/ DeleteFileCall
    \/ ClearCall
    \/ StatsCall

SpecAdmin == InitAdmin /\ [][NextAdmin]_vars

----------------------------------------------------------------------------
(* The store with timestamps: stores are created and touched at different  *)
(* readings of the clock, files are upserted, and ClearStore runs, any     *)
(* statement of it failing or none.                                        *)

FrameInputs ==
    [stores |-> {<<"a", 2>>, <<"b", 2>>}, files |-> {<<"f", 1>>},
     sizes |-> {1, 2}, times |-> {Epoch, Epoch + 1}, maxChunks |-> MaxHits]

CallTouchStore(in) ==
    \E sid \in StoreIds(db), now \in in.times :
        SeedCall("touch", UpdateStoreTimestamp(db, sid, now),
                 [NoCall EXCEPT !.sid = sid], in)

\* ClearStore, none of its statements failing (failAt = 0) or one of them
FrameClearStore(in) ==
    \E sid \in StoreIds(db) :
        \E failAt \in 0..Len(ClearStore(db, sid)) :
            \E r \in {RunProg("clear", ClearStore(db, sid), db, failAt)} :
                /\ StoreIs(r.db)
                /\ last' = Outcome("clear",
                                   [NoCall EXCEPT !.sid = sid,
                                                  !.found = FilesOfStore(db, sid) # {},
                                                  !.n = Cardinality(ChunksOfStore(db, sid))],
                                   r)
                /\ UNCHANGED <<wop, mu, rd, disk, ix, wt, sq, srv, wk, ck, dq, tl, adm>>

InitFrame == Init

NextFrame ==
    \/ SeedCreateStore(FrameInputs)
    \/ SeedUpsertFile(FrameInputs)
    \/ CallTouchStore(FrameInputs)
    \/ FrameClearStore(FrameInputs)

SpecFrame == InitFrame /\ [][NextFrame]_vars

----------------------------------------------------------------------------
(* The file walker: Walk is filepath.WalkDir over the root, which visits   *)
(* the root first and then, in lexical order and depth first, what is      *)
(* below it.  A file that the ignore patterns, the size limit, the         *)
(* extension filter or the binary check turn away is "junk".               *)

\* the paths below the root, relative to it, in the order WalkDir visits them
VisitOrder ==
    << <<".h">>, <<".h", ".h">>, <<".h", "a">>,
       <<"a">>,  <<"a", ".h">>,  <<"a", "a">>,
       <<"b">>,  <<"b", ".h">>,  <<"b", "a">> >>
WalkPaths == {VisitOrder[i] : i \in 1..Len(VisitOrder)}
RootNames == {"r", ".r", ".git"}

\* strings.HasPrefix(name, "."), over the names of the model
HasDotPrefix(name) == name \in {".h", ".r", ".git"}

\* the directory of a relative path
Parent(path) == SubSeq(path, 1, Len(path) - 1)

\* a tree: each path is absent ("none"), a file, a junk file or a directory;
\* what is in a directory has a directory above it
IsTree(t) ==
    /\ \A p \in WalkPaths : Len(p) > 1 => (t[p] # "none" => t[Parent(p)] = "dir")
    /\ \A p \in WalkPaths : Len(p) > 1 => t[p] # "dir"
    /\ Cardinality({p \in WalkPaths : t[p] # "none"}) <= MaxEntries
Trees == {t \in [WalkPaths -> {"none", "file", "junk", "dir"}] : IsTree(t)}

\* shouldSkipDir; no ignore pattern of the model matches a directory
shouldSkipDir(hidden, name, relPath) ==
    \/ name = ".git"
    \/ (~hidden /\ HasDotPrefix(name))

\* shouldSkipFile; the ignore patterns are part of what makes a file junk
shouldSkipFile(hidden, name, kind) ==
    \/ (~hidden /\ HasDotPrefix(name))
    \/ kind = "junk"

\* the entries WalkDir has still to visit: present, after the last one
\* visited, and not below a directory it did not descend into
ToVisit(w) ==
    {i \in (w.at + 1)..Len(VisitOrder) :
        /\ w.tree[VisitOrder[i]] # "none"
        /\ Parent(VisitOrder[i]) \notin w.pruned}

\* the callback on the root: d.Name() is the root's own base name, relPath
\* is "." (here the empty path); SkipDir on the root ends the walk
WalkRoot ==
    /\ wk.pc = "start"
    /\ wk' = IF shouldSkipDir(wk.includeHidden, wk.root, << >>)
             THEN [wk EXCEPT !.pc = "done", !.dirsSkipped = @ + 1]
             ELSE [wk EXCEPT !.pc = "walking"]
    /\ UNCHANGED <<db, committed, last, wop, mu, rd, stable, disk, ix, wt, sq, srv, ck, dq, tl, adm>>

\* the callback on the next entry below the root; WalkDir returns when
\* there is none, or on SkipAll
Visit(w, p) ==
    IF w.tree[p] = "dir"
    THEN IF shouldSkipDir(w.includeHidden, BaseName(p), p)
         THEN [w EXCEPT !.pruned = @ \cup {p}, !.dirsSkipped = @ + 1]
         ELSE w
    ELSE IF w.maxFileCount > 0 /\ w.filesFound >= w.maxFileCount
         THEN [w EXCEPT !.pc = "done"]
    ELSE IF shouldSkipFile(w.includeHidden, BaseName(p), w.tree[p])
         THEN [w EXCEPT !.filesSkipped = @ + 1]
    ELSE [w EXCEPT !.yielded = Append(@, p), !.filesFound = @ + 1]

WalkEntry ==
    /\ wk.pc = "walking"
    /\ ToVisit(wk) # {}
    /\ \E i \in ToVisit(wk) :
          /\ \A j \in ToVisit(wk) : i <= j
          /\ wk' = Visit([wk EXCEPT !.at = i], VisitOrder[i])
    /\ UNCHANGED <<db, committed, last, wop, mu, rd, stable, disk, ix, wt, sq, srv, ck, dq, tl, adm>>

WalkReturn ==
    /\ wk.pc = "walking"
    /\ ToVisit(wk) = {}
    /\ wk' = [wk EXCEPT !.pc = "done"]
    /\ UNCHANGED <<db, committed, last, wop, mu, rd, stable, disk, ix, wt, sq, srv, ck, dq, tl, adm>>

InitWalk ==
    /\ db = EmptyDB /\ committed = EmptyDB /\ stable = EmptyDB
    /\ last = NoCall /\ wop = Idle
    /\ mu = [writer |-> FALSE, readers |-> 0]
    /\ rd = [r \in Readers |-> NoReader]
    /\ disk = NoDisk /\ ix = NoPass /\ wt = NoWatch
    /\ sq = NoSearch /\ srv = NoServer /\ ck = NoChunking /\ dq = NoDebounce /\ tl = NoTools /\ adm = NoAdmin
    /\ \E root \in RootNames, hidden \in BOOLEAN, max \in {0, 1}, t \in Trees :
          wk = [NoWalk EXCEPT !.pc = "start", !.root = root, !.includeHidden = hidden,
                              !.maxFileCount = max, !.tree = t]

NextWalk == WalkRoot \/ WalkEntry \/ WalkReturn

SpecWalk == InitWalk /\ [][NextWalk]_vars

----------------------------------------------------------------------------
(* Search over two stores in one database: the vector table is shared, the *)
(* k-NN takes its kForVec nearest rows from all of it, and the join keeps  *)
(* those of the store asked for.                                           *)

\* n chunks whose embeddings all point in direction dir
NearChunks(n, dir) == [i \in 1..n |-> [idx |-> i - 1, content |-> dir]]
NearEmbeddings(n, dir) == [i \in 1..n |-> [width |-> 2, dir |-> dir]]

KnnInputs ==
    [stores |-> {<<"a", 2>>, <<"b", 2>>}, times |-> {Epoch},
     files |-> {<<1, 1>>, <<1, 2>>, <<InnerFactor, 0>>}, topKs |-> {1, 2}, qvecs |-> {0},
     maxChunks |-> MaxVectors]

\* the files upserted, as <<number of chunks, direction of their embeddings>>
KnnUpsertFile(in) ==
    \E sid \in 1..db.seq.store, fin \in in.files :
        SeedCall("upsert",
                 UpsertFile(db, sid, [ext |-> "f", hash |-> fin[2]],
                            NearChunks(fin[1], fin[2]), NearEmbeddings(fin[1], fin[2])),
                 [NoCall EXCEPT !.sid = sid, !.ext = "f", !.n = fin[1],
                                !.found = FileByExternalID(db, sid, "f") # {}], in)

\* one Search call, from RLock to RUnlock
KnnSearch(in) ==
    /\ \E sid \in 1..db.seq.store, q \in in.qvecs, k \in in.topKs :
          rd' = [rd EXCEPT ![1] = [pc |-> "done", sid |-> sid, q |-> q, k |-> k,
                                   res |-> Search(db, sid, q, k), during |-> FALSE]]
    /\ UNCHANGED <<db, committed, stable, last, wop, mu, disk, ix, wt, sq, srv, wk, ck, dq, tl, adm>>

InitKnn == Init

NextKnn ==
    \/ SeedCreateStore(KnnInputs)
    \/ KnnUpsertFile(KnnInputs)
    \/ KnnSearch(KnnInputs)

SpecKnn == InitKnn /\ [][NextKnn]_vars

----------------------------------------------------------------------------
(* The chunker.  A content is the list of its lines (strings.Split on      *)
(* "\n"); a line is its number in the file, its length in runes and        *)
(* whether findCodeBoundaries takes it for the start of a definition.  The *)
(* Content of a chunk is the list of the numbers of the lines joined into  *)
(* it, in the order they stand in the string.  StartChar and EndChar are   *)
(* left out.                                                               *)

DefaultChunkSize == 1500
DefaultChunkOverlap == 200
DefaultMinChunkSize == 100

\* NewTextChunker: the defaults for the values not given
NewTextChunker(opts) ==
    [chunkSize |-> IF opts.chunkSize <= 0 THEN DefaultChunkSize ELSE opts.chunkSize,
     chunkOverlap |-> IF opts.chunkOverlap < 0 THEN DefaultChunkOverlap
                      ELSE opts.chunkOverlap,
     minChunkSize |-> IF opts.minChunkSize <= 0 THEN DefaultMinChunkSize
                      ELSE opts.minChunkSize]

\* utf8.RuneCountInString(line) + 1
LineLen(l) == l.runes + 1

RECURSIVE SumLineLen(_)
SumLineLen(ls) == IF ls = << >> THEN 0 ELSE LineLen(Head(ls)) + SumLineLen(Tail(ls))

\* utf8.RuneCountInString(strings.Join(ls, "\n"))
JoinedRunes(ls) == IF ls = << >> THEN 0 ELSE SumLineLen(ls) - 1

\* strings.Join(ls, "\n"), as the numbers of the lines
Joined(ls) == [i \in 1..Len(ls) |-> ls[i].id]

\* calculateOverlap: lines from the end until ChunkOverlap runes are reached
RECURSIVE OverlapLoop(_, _, _, _)
OverlapLoop(ls, o, i, acc) ==
    IF i >= 1 /\ acc.size < o.chunkOverlap
    THEN OverlapLoop(ls, o, i - 1,
                     [lines |-> << ls[i] >> \o acc.lines,
                      size |-> acc.size + LineLen(ls[i])])
    ELSE acc

calculateOverlap(ls, o) ==
    IF o.chunkOverlap <= 0 \/ Len(ls) = 0 THEN [lines |-> << >>, size |-> 0]
    ELSE OverlapLoop(ls, o, Len(ls), [lines |-> << >>, size |-> 0])

NewChunk(chunks, cur, chunkStart) ==
    [content |-> Joined(cur), startLine |-> chunkStart + 1,
     endLine |-> chunkStart + Len(cur), chunkIndex |-> Len(chunks)]

\* the loop of chunkText over the lines; i - 1 is lineNum
RECURSIVE TextLoop(_, _, _, _)
TextLoop(ls, o, i, st) ==
    IF i > Len(ls) THEN st
    ELSE LET Flushed(ov) ==
                 IF st.size + LineLen(ls[i]) > o.chunkSize /\ Len(st.cur) > 0
                 THEN [chunks |-> Append(st.chunks,
                                         NewChunk(st.chunks, st.cur, st.chunkStart)),
                       cur |-> ov.lines, chunkStart |-> (i - 1) - Len(ov.lines),
                       size |-> ov.size]
                 ELSE st
             Added(s1) == [s1 EXCEPT !.cur = Append(@, ls[i]),
                                     !.size = @ + LineLen(ls[i])]
         IN  TextLoop(ls, o, i + 1, Added(Flushed(calculateOverlap(st.cur, o))))

\* prev.Content += "\n" + content; prev.EndLine = chunkStart + len(currentLines)
Merge(chunks, cur, chunkStart) ==
    LET prev == chunks[Len(chunks)]
    IN  [chunks EXCEPT ![Len(chunks)] =
            [prev EXCEPT !.content = @ \o Joined(cur), !.endLine = chunkStart + Len(cur)]]

\* chunkText; a chunk index that is always 0
chunkTextIndexZero(ls, o) ==
    LET Final(st) ==
            IF Len(st.cur) = 0 THEN st.chunks
            ELSE IF Len(st.chunks) = 0 \/ JoinedRunes(st.cur) >= o.minChunkSize
            THEN Append(st.chunks,
                        [NewChunk(st.chunks, st.cur, st.chunkStart) EXCEPT !.chunkIndex = 0])
            ELSE Merge(st.chunks, st.cur, st.chunkStart)
    IN  Final(TextLoop(ls, o, 1, [chunks |-> << >>, cur |-> << >>, chunkStart |-> 0,
                                  size |-> 0]))

chunkText(ls, o) ==
    LET Final(st) ==
            IF Len(st.cur) = 0 THEN st.chunks
            ELSE IF Len(st.chunks) = 0 \/ JoinedRunes(st.cur) >= o.minChunkSize
            THEN Append(st.chunks, NewChunk(st.chunks, st.cur, st.chunkStart))
            ELSE Merge(st.chunks, st.cur, st.chunkStart)
    IN  Final(TextLoop(ls, o, 1, [chunks |-> << >>, cur |-> << >>, chunkStart |-> 0,
                                  size |-> 0]))

\* findCodeBoundaries: the 0-based numbers of the lines that start a
\* definition, with line 0 put first when it is not one of them
findCodeBoundaries(ls) ==
    LET found == SelectSeq([i \in 1..Len(ls) |-> i - 1], LAMBDA b : ls[b + 1].def)
    IN  IF Len(found) = 0 THEN << 0 >>
        ELSE IF found[1] > 0 THEN << 0 >> \o found
        ELSE found

\* the sub-chunks of an oversized block, moved to the lines of the file
RECURSIVE AppendSubs(_, _, _, _)
AppendSubs(chunks, subs, j, boundary) ==
    IF j > Len(subs) THEN chunks
    ELSE AppendSubs(Append(chunks,
                           [subs[j] EXCEPT !.startLine = @ + boundary,
                                           !.endLine = @ + boundary,
                                           !.chunkIndex = Len(chunks)]),
                    subs, j + 1, boundary)

\* the loop of chunkCode over the boundaries
RECURSIVE CodeLoop(_, _, _, _, _)
CodeLoop(ls, o, bs, i, chunks) ==
    IF i > Len(bs) THEN chunks
    ELSE LET boundary == bs[i]
             endLine == IF i + 1 <= Len(bs) THEN bs[i + 1] ELSE Len(ls)
             chunkLines == SubSeq(ls, boundary + 1, endLine)
             Next1(subs) ==
                 IF JoinedRunes(chunkLines) > o.chunkSize * 2
                 THEN AppendSubs(chunks, subs, 1, boundary)
                 ELSE IF JoinedRunes(chunkLines) >= o.minChunkSize
                 THEN Append(chunks,
                             [content |-> Joined(chunkLines), startLine |-> boundary + 1,
                              endLine |-> endLine, chunkIndex |-> Len(chunks)])
                 ELSE chunks
         IN  CodeLoop(ls, o, bs, i + 1, Next1(chunkText(chunkLines, o)))

chunkCode(ls, o) ==
    LET Result(chunks) == IF Len(chunks) = 0 THEN chunkText(ls, o) ELSE chunks
    IN  IF Len(findCodeBoundaries(ls)) = 0 THEN chunkText(ls, o)
        ELSE Result(CodeLoop(ls, o, findCodeBoundaries(ls), 1, << >>))

\* Chunk: nil for the empty content, chunkCode for the languages of
\* SupportsCodeChunking
Chunk(ls, code, o) ==
    IF JoinedRunes(ls) = 0 /\ Len(ls) = 1 THEN << >>
    ELSE IF code THEN chunkCode(ls, o)
    ELSE chunkText(ls, o)

\* the lines tried, as <<runes, starts a definition>>, and the options
ChunkInputs ==
    [lineKinds |-> {<<0, FALSE>>, <<1, FALSE>>, <<3, FALSE>>, <<3, TRUE>>},
     chunkSizes |-> {0, 4}, chunkOverlaps |-> {-1, 0, 2}, minChunkSizes |-> {0, 3}]

LinesOf(kinds) ==
    [i \in 1..Len(kinds) |-> [id |-> i, runes |-> kinds[i][1], def |-> kinds[i][2]]]

ChunkCall ==
    /\ ck.pc = "called"
    /\ \E r \in {Chunk(ck.lines, ck.code, NewTextChunker(ck.opts))} :
          ck' = [ck EXCEPT !.pc = "done", !.chunks = r]
    /\ UNCHANGED <<db, committed, last, wop, mu, rd, stable, disk, ix, wt, sq, srv, wk, dq, tl, adm>>

InitChunk ==
    /\ db = EmptyDB /\ committed = EmptyDB /\ stable = EmptyDB
    /\ last = NoCall /\ wop = Idle
    /\ mu = [writer |-> FALSE, readers |-> 0]
    /\ rd = [r \in Readers |-> NoReader]
    /\ disk = NoDisk /\ ix = NoPass /\ wt = NoWatch
    /\ sq = NoSearch /\ srv = NoServer /\ wk = NoWalk /\ dq = NoDebounce /\ tl = NoTools /\ adm = NoAdmin
    /\ \E n \in 1..MaxFileLines :
       \E kinds \in [1..n -> ChunkInputs.lineKinds], code \in BOOLEAN,
          cs \in ChunkInputs.chunkSizes, co \in ChunkInputs.chunkOverlaps,
          mn \in ChunkInputs.minChunkSizes :
          ck = [NoChunking EXCEPT !.pc = "called", !.lines = LinesOf(kinds),
                                  !.code = code,
                                  !.opts = [chunkSize |-> cs, chunkOverlap |-> co,
                                            minChunkSize |-> mn]]

NextChunk == ChunkCall

SpecChunk == InitChunk /\ [][NextChunk]_vars

----------------------------------------------------------------------------
(* The debounce map under concurrency.  Start's loop (the receiver) runs   *)
(* handleEvent for each event; the goroutine of processDebounced (the      *)
(* ticker) runs flushDebounced at each tick it receives.  Each statement   *)
(* on the map is a step of its own; debounceMu is held as the code holds   *)
(* it.  The events are those handleEvent does not turn away, and the       *)
(* context stays live.                                                     *)

DebounceOps == {"Write", "Remove"}

\* debounceMu can be taken by anybody at any time
LockableAlways(m) == TRUE
\* debounceMu.Lock() can return
Lockable(m) == m = "free"

DqUnchanged ==
    UNCHANGED <<db, committed, last, wop, mu, rd, stable, disk, ix, wt, sq, srv, wk, ck, tl, adm>>

\* an event comes out of watcher.Events and handleEvent reaches the map
Receive ==
    /\ dq.recv = "idle"
    /\ Len(dq.recorded) < MaxEvents
    /\ \E p \in Paths, op \in DebounceOps :
          dq' = [dq EXCEPT !.recv = "lock", !.ev = [path |-> p, op |-> op]]
    /\ DqUnchanged

\* w.debounceMu.Lock()
RecvLock ==
    /\ dq.recv = "lock"
    /\ Lockable(dq.mu)
    /\ dq' = [dq EXCEPT !.recv = "store", !.mu = "recv"]
    /\ DqUnchanged

\* w.debounce[path] = event.Op: the op is recorded under the next number,
\* and the op it replaces in the map, if any, is overwritten
RecvStore ==
    /\ dq.recv = "store"
    /\ LET id == Len(dq.recorded) + 1
           old == dq.debounce[dq.ev.path]
       IN dq' = [dq EXCEPT !.recv = "unlock",
                           !.debounce[dq.ev.path] = id,
                           !.recorded = Append(@, dq.ev),
                           !.fate = [n \in 1..id |->
                                        IF n = id THEN "map"
                                        ELSE IF n = old THEN "overwritten" ELSE @[n]],
                           !.handled = Append(@, 0)]
    /\ DqUnchanged

\* w.debounceMu.Unlock()
RecvUnlock ==
    /\ dq.recv = "unlock"
    /\ dq' = [dq EXCEPT !.recv = "idle", !.mu = "free",
                        !.ev = [path |-> "", op |-> ""]]
    /\ DqUnchanged

\* the goroutine of processDebounced is in its select and receives a tick
TickFire ==
    /\ dq.flush = "idle"
    /\ dq' = [dq EXCEPT !.flush = "lock", !.running = @ + 1]
    /\ DqUnchanged

\* flushDebounced: w.debounceMu.Lock()
FlushLock ==
    /\ dq.flush = "lock"
    /\ Lockable(dq.mu)
    /\ dq' = [dq EXCEPT !.flush = "check", !.mu = "flush"]
    /\ DqUnchanged

\* if len(w.debounce) == 0 { Unlock; return }
FlushCheck ==
    /\ dq.flush = "check"
    /\ dq' = IF \A p \in Paths : dq.debounce[p] = 0
             THEN [dq EXCEPT !.flush = "idle", !.mu = "free", !.running = @ - 1]
             ELSE [dq EXCEPT !.flush = "copy"]
    /\ DqUnchanged

\* the copy of the map into events: every op in the map is handed to this drain
FlushCopy ==
    /\ dq.flush = "copy"
    /\ dq' = [dq EXCEPT !.flush = "clear",
                        !.events = dq.debounce,
                        !.drains = @ + 1,
                        !.handled = [n \in 1..Len(@) |->
                                        IF \E p \in Paths : dq.debounce[p] = n
                                        THEN @[n] + 1 ELSE @[n]]]
    /\ DqUnchanged

\* w.debounce = make(map[string]fsnotify.Op)
FlushClear ==
    /\ dq.flush = "clear"
    /\ dq' = [dq EXCEPT !.flush = "unlock", !.debounce = [p \in Paths |-> 0]]
    /\ DqUnchanged

\* w.debounceMu.Unlock(), and the loop over events begins
FlushUnlock ==
    /\ dq.flush = "unlock"
    /\ dq' = [dq EXCEPT !.flush = "drain", !.mu = "free",
                        !.todo = {p \in Paths : dq.events[p] # 0}]
    /\ DqUnchanged

\* the next path of the loop, in the order the map iteration gives:
\* handleDelete or handleModify
DrainOne ==
    /\ dq.flush = "drain"
    /\ \E p \in dq.todo : dq' = [dq EXCEPT !.todo = @ \ {p}]
    /\ DqUnchanged

\* flushDebounced returns to the select of processDebounced
FlushReturn ==
    /\ dq.flush = "drain"
    /\ dq.todo = {}
    /\ dq' = [dq EXCEPT !.flush = "idle", !.events = [p \in Paths |-> 0],
                        !.running = @ - 1]
    /\ DqUnchanged

InitDebounce == Init

NextReceiver == Receive \/ RecvLock \/ RecvStore \/ RecvUnlock

NextTicker ==
    \/ TickFire
    \/ FlushLock
    \/ FlushCheck
    \/ FlushCopy
    \/ FlushClear
    \/ FlushUnlock
    \/ DrainOne
    \/ FlushReturn

NextDebounce == NextReceiver \/ NextTicker

\* the ticker fires every debounceTime and both goroutines are scheduled
SpecDebounce ==
    InitDebounce /\ [][NextDebounce]_vars
    /\ WF_vars(NextTicker) /\ WF_vars(RecvLock \/ RecvStore \/ RecvUnlock)

(* ---------------- Properties of the store ---------------- *)

HasVector(d, c) == \E v \in d.vectors : v.chunk = c.id

(* Every vector has its chunk, every chunk its file, every file its store. *)
NoOrphans(d) ==
    /\ \A v \in d.vectors : \E c \in d.chunks : c.id = v.chunk
    /\ \A c \in d.chunks : \E f \in d.files : f.id = c.file
    /\ \A f \in d.files : \E st \in d.stores : st.id = f.store

(* C1: an UpsertFile call that fails, at whichever statement, leaves the   *)
(* tables exactly as they were before the call.                            *)
C1_UpsertFailureRollsBack ==
    [][(last'.op = "upsert" /\ ~last'.ok) => db' = db]_vars

(* A replacing UpsertFile failed after its first delete had run, and the   *)
(* file's chunks and vectors are still there.                              *)
C1_Witness ==
    /\ last.op = "upsert" /\ ~last.ok /\ last.found /\ last.late
    /\ \E c \in db.chunks : HasVector(db, c)

(* C3: after a successful UpsertFile the file has exactly len(chunks)      *)
(* chunks, each chunk has exactly one vector, and every such vector is as  *)
(* wide as the embedding_dimensions of the store that owns the file.       *)
C3_UpsertPostcondition ==
    (last.op = "upsert" /\ last.ok) =>
        \E f \in FileByExternalID(db, last.sid, last.ext) :
            LET cs == ChunksOfFile(db, f.id) IN
            /\ Cardinality(cs) = last.n
            /\ \A c \in cs :
                Cardinality({v \in db.vectors : v.chunk = c.id}) = 1
            /\ \A c \in cs : \A v \in db.vectors : \A st \in StoreById(db, f.store) :
                v.chunk = c.id => v.width = st.dims

(* C19: every stored vector is as wide as the embedding_dimensions of the  *)
(* store that owns its chunk, and the width of the one vector table equals *)
(* the dimensions of every store that has vectors in it.                   *)
C19_VectorWidthIsStoreDims ==
    /\ \A v \in db.vectors, c \in db.chunks, f \in db.files, st \in db.stores :
          (v.chunk = c.id /\ c.file = f.id /\ f.store = st.id) => v.width = st.dims
    /\ \A st \in db.stores :
          VectorsOfChunks(db, ChunksOfStore(db, st.id)) # {} => db.vecWidth = st.dims

(* C5: after any sequence of successful calls nothing is orphaned, and a   *)
(* successful DeleteStore leaves no store, file or chunk of that store.    *)
C5_DeleteStoreLeavesNothing ==
    /\ NoOrphans(db)
    /\ (last.op = "delStore" /\ last.ok /\ last.sid # 0) =>
        /\ StoreById(db, last.sid) = {}
        /\ FilesOfStore(db, last.sid) = {}
        /\ ChunksOfStore(db, last.sid) = {}

(* DeleteStore has just removed a store that had chunks. *)
C5_Witness ==
    last.op = "delStore" /\ last.ok /\ last.sid # 0 /\ last.n > 0

(* C6: a DeleteStore, DeleteFile or ClearStore that fails leaves the       *)
(* tables as they were before the call, so that no chunk is ever without   *)
(* its vector.                                                             *)
C6_DeletesAllOrNothing ==
    [][/\ (last'.op \in {"delStore", "delFile", "clear"} /\ ~last'.ok) => db' = db
       /\ \A c \in db'.chunks : HasVector(db', c)]_vars

(* C2: a Search that runs while an UpsertFile replaces a file's chunks     *)
(* returns what the tables held before that call or what they hold after   *)
(* it, the old chunks in full or the new ones in full, never a mixture:    *)
(* its rows are those of the tables as the last completed call left them.  *)
C2_SearchSeesWholeSet ==
    [][\A r \in Readers :
          (rd[r].pc = "locked" /\ rd'[r].pc = "done") =>
              rd'[r].res = Search(stable, rd[r].sid, rd[r].q, rd[r].k)]_vars

(* A Search called while a replacing UpsertFile was in flight has returned rows. *)
C2_Witness ==
    \E r \in Readers : rd[r].pc = "done" /\ rd[r].during /\ Len(rd[r].res) > 0

\* the files, chunks and vectors of store sid
DataOfStore(d, sid) ==
    [files |-> FilesOfStore(d, sid), chunks |-> ChunksOfStore(d, sid),
     vectors |-> VectorsOfChunks(d, ChunksOfStore(d, sid))]

(* C20: a ClearStore of store sid leaves every Store row as it was,        *)
(* updated_at included, and the files, chunks and vectors of every other   *)
(* store, the width of the vector table and the row ids issued so far;     *)
(* when it succeeds, no file or chunk of sid is left and no vector of a    *)
(* chunk that was sid's.                                                   *)
C20_ClearStoreFrame ==
    [][last'.op = "clear" =>
         \E sid \in StoreIds(db) :
            /\ last'.ok => sid = last'.sid
            /\ db'.stores = db.stores
            /\ db'.vecWidth = db.vecWidth /\ db'.seq = db.seq
            /\ \A st \in db.stores :
                  st.id # sid => DataOfStore(db', st.id) = DataOfStore(db, st.id)
            /\ last'.ok =>
                  /\ FilesOfStore(db', sid) = {} /\ ChunksOfStore(db', sid) = {}
                  /\ db'.vectors \cap VectorsOfChunks(db, ChunksOfStore(db, sid)) = {}
                  /\ db'.files \subseteq db.files /\ db'.chunks \subseteq db.chunks
                  /\ db'.vectors \subseteq db.vectors]_vars

(* ClearStore has just emptied a store that had chunks, whose updated_at   *)
(* is not that of the other store, which still has its vectors.            *)
C20_Witness ==
    /\ last.op = "clear" /\ last.ok /\ last.n > 0
    /\ \E s1, s2 \in db.stores :
          /\ s1.id = last.sid /\ s2.id # last.sid
          /\ s1.updated = Epoch + 1 /\ s2.updated = Epoch
          /\ DataOfStore(db, s2.id).vectors # {}

\* the vectors of the chunks of store sid
VectorsOfStore(d, sid) == VectorsOfChunks(d, ChunksOfStore(d, sid))

(* C22: a Search of a store that holds at least k chunks with vectors      *)
(* returns exactly k rows, all of that store, at the distances of the k    *)
(* vectors of the store nearest to the query, whatever the other stores    *)
(* of the database hold.                                                   *)
C22_SearchReturnsKNearestOfStore ==
    [][(rd'[1] # rd[1] /\ Cardinality(VectorsOfStore(db, rd'[1].sid)) >= rd'[1].k) =>
         LET r == rd'[1]
             near == Nearest(r.q, VectorsOfStore(db, r.sid), r.k)
         IN  /\ Len(r.res) = r.k
             /\ \A i \in 1..Len(r.res) :
                   /\ r.res[i].store = r.sid
                   /\ r.res[i].distance = Distance(r.q, near[i].dir)]_vars

(* ---------------- Properties of the searcher ---------------- *)

Range(seq) == {seq[i] : i \in 1..Len(seq)}

\* at most k rows, all of the store sid, by ascending distance, the score
\* being 1 - distance
RowsOfStoreInOrder(rows, sid, k) ==
    /\ Len(rows) <= k
    /\ \A i \in 1..Len(rows) :
          /\ rows[i].store = sid
          /\ rows[i].score = 1 - rows[i].distance
    /\ \A i, j \in 1..Len(rows) :
          i < j => (rows[i].distance <= rows[j].distance
                    /\ rows[i].score >= rows[j].score)

ScoresInUnit(rows) == \A i \in 1..Len(rows) : 0 <= rows[i].score /\ rows[i].score <= 1

(* C11: the rows the store's Search returns for (store_id, v, k) are at    *)
(* most k, all of files of store_id, by non-decreasing distance and        *)
(* non-increasing score, each score being 1 - distance and lying in [0,1]. *)
C11_SearchRows ==
    (sq.op = "search" /\ sq.err = "") =>
        \A sid \in sq.searched :
            /\ RowsOfStoreInOrder(sq.raw, sid, TopKOf(sq.topK))
            /\ ScoresInUnit(sq.raw)

\* the entries SearchAll has to choose from: what each store that answered
\* returns for the query, at or above min_score
Pool ==
    UNION {Range(Convert(Search(db, st.id, sq.qvec, TopKOf(sq.topK)), sq.minScore)) :
              st \in {x \in db.stores : x.id \notin sq.failing}}

(* C12: a SearchAll that succeeds has embedded the query once, and returns *)
(* entries of the union of the stores' k-NN results with score at least    *)
(* min_score: the top_k best of them (top_k <= 0 counting as 10), all of   *)
(* them when they are fewer, each once, by descending score.               *)
C12_SearchAllMerges ==
    (sq.op = "searchAll" /\ sq.err = "") =>
        LET rs == sq.results IN
        /\ sq.embeds = 1
        /\ Len(rs) = Min(TopKOf(sq.topK), Cardinality(Pool))
        /\ Range(rs) \subseteq Pool
        /\ \A i, j \in 1..Len(rs) : i < j => (rs[i] # rs[j] /\ rs[i].score >= rs[j].score)
        /\ \A x \in Pool \ Range(rs) : \A i \in 1..Len(rs) : x.score <= rs[i].score

(* SearchAll over two stores had more entries to choose from than top_k    *)
(* and returned the best two, of different scores.                         *)
C12_Witness ==
    /\ sq.op = "searchAll" /\ sq.err = "" /\ sq.topK = 2
    /\ Cardinality(sq.searched) = 2 /\ Cardinality(Pool) > 2
    /\ Len(sq.results) = 2 /\ sq.results[1].score > sq.results[2].score

\* a step of the call made has failed
SearchStepFailed ==
    \/ sq.op \in {"search", "searchAll"} /\ sq.query = ""
    \/ sq.op = "search" /\ (sq.fault # "none" \/ StoreByName(db, sq.storeName) = {})
    \/ sq.op = "searchAll"
          /\ \/ sq.fault # "none"
             \/ ListStores(db) = << >>
             \/ \E st \in db.stores : st.id \in sq.failing

(* C13: a Search or SearchAll one of whose steps fails (empty query, the   *)
(* lookup or the listing of the stores, the embedding of the query, a      *)
(* store's k-NN call) returns an error and no results.                     *)
C13_FirstErrorSurfaces ==
    SearchStepFailed => (sq.err # "" /\ sq.results = << >>)

(* ---------------- Properties of the tool server ---------------- *)

\* a line that is to be answered: not blank, not the initialized notification
Answered(line) == line.text # "blank" /\ ~(line.text = "json" /\ line.method = "initialized")

\* the numbers of the lines read that are to be answered, in input order
AnsweredLines ==
    SelectSeq([i \in 1..Len(srv.read) |-> i], LAMBDA i : Answered(srv.read[i]))

\* each line to be answered has its response, in input order
OneResponseEach == Len(srv.out) = Len(AnsweredLines)

\* Run has returned only at EOF, and without error
ReturnsAtEOF == srv.pc = "returned" => srv.err = "nil"

(* C14: after any lines read, stdout holds exactly one response for each   *)
(* line that is neither blank nor the initialized notification, in the     *)
(* order of the lines, each carrying the id of its request, the null id    *)
(* for a line that does not parse; and at EOF Run returns without error.   *)
C14_OneResponsePerRequest ==
    /\ OneResponseEach
    /\ \A k \in 1..Min(Len(srv.out), Len(AnsweredLines)) :
          srv.out[k].id = IF srv.read[AnsweredLines[k]].text = "garbage" THEN Null
                          ELSE AnsweredLines[k]
    /\ ReturnsAtEOF

KnownMethods == {"initialize", "initialized", "tools/list", "tools/call", "ping"}

\* the handler of this request returns an error
HandlerFails(line) ==
    /\ line.text = "json"
    /\ \/ line.method = "initialize" /\ line.params.shape = "bad"
       \/ line.method = "tools/call" /\ line.params.shape # "ok"

(* C15: a line that does not parse is answered with -32700, a request of   *)
(* an unknown method with -32601, a request whose handler returns an error *)
(* with -32603; and the server goes on serving: every line read has been   *)
(* answered, and Run returns only at EOF.                                  *)
C15_ErrorCodes ==
    /\ OneResponseEach
    /\ ReturnsAtEOF
    /\ \A k \in 1..Min(Len(srv.out), Len(AnsweredLines)) :
          LET line == srv.read[AnsweredLines[k]] IN
          /\ line.text = "garbage" => srv.out[k].code = ErrorCodeParse
          /\ (line.text = "json" /\ line.method \notin KnownMethods)
                => srv.out[k].code = ErrorCodeMethodNotFound
          /\ HandlerFails(line) => srv.out[k].code = ErrorCodeInternal

(* A parse error, an unknown method and a failing handler have each been   *)
(* answered with its code, the last of them mid-run: after an error the    *)
(* next line was served.                                                   *)
C15_Witness ==
    /\ Len(srv.out) = 3
    /\ srv.out[1].code = ErrorCodeParse
    /\ {srv.out[2].code, srv.out[3].code} = {ErrorCodeMethodNotFound, ErrorCodeInternal}

(* C16: a tools/call or initialize request whose params are missing or do  *)
(* not decode is answered with error -32600 or -32602.                     *)
C16_SchemaMismatchCodes ==
    /\ OneResponseEach
    /\ \A k \in 1..Min(Len(srv.out), Len(AnsweredLines)) :
          LET line == srv.read[AnsweredLines[k]] IN
          (line.text = "json" /\ line.method \in {"initialize", "tools/call"}
             /\ line.params.shape \in {"missing", "bad"})
          => srv.out[k].code \in {ErrorCodeInvalidRequest, ErrorCodeInvalidParams}

\* the last line read was a tools/call of lgrep_search
SearchToolCalled == srv.tool.name = "lgrep_search"

ErrorTexts == {"queryRequired", "resolveFailed", "indexFailed", "searchFailed"}

\* what holds of every lgrep_search call but the runs of Index: a tool
\* result, an error text with isError exactly when a step failed, Index at
\* most once and before the search
SearchToolAnswers ==
    LET r == srv.out[Len(srv.out)]
        t == srv.tool
    IN  /\ srv.out # << >>
        /\ r.code = 0 /\ r.result = "tool"
        /\ r.isError <=> r.text \in ErrorTexts
        /\ t.query = "" => (r.text = "queryRequired" /\ t.indexRuns = 0 /\ t.searches = 0)
        /\ (t.query # "" /\ t.scenario = "abs")
              => (r.text = "resolveFailed" /\ t.indexRuns = 0 /\ t.searches = 0)
        /\ (t.indexRuns = 1 /\ t.scenario = "indexStore")
              => (r.text = "indexFailed" /\ t.searches = 0)
        /\ (t.searches = 1 /\ t.scenario \in {"searchEmbed", "searchStore"})
              => r.text = "searchFailed"
        /\ (t.searches = 1 /\ t.hits = 0 /\ t.scenario \notin {"searchEmbed", "searchStore"})
              => (r.text = "No results found." /\ ~r.isError)
        /\ r.text \notin ErrorTexts => t.searches = 1

InMap(n) == \E p \in Paths : dq.debounce[p] = n

\* no recorded op is lost: it is in the map, or a later op of its path has
\* overwritten it there, or one drain has taken it; never two of the last
\* two, and never two drains
NoOpLostOrTwice ==
    \A n \in 1..Len(dq.recorded) :
        /\ dq.handled[n] <= 1
        /\ InMap(n) \/ dq.fate[n] = "overwritten" \/ dq.handled[n] = 1
        /\ ~(dq.fate[n] = "overwritten" /\ dq.handled[n] = 1)
        /\ (InMap(n) /\ dq.handled[n] = 1) => dq.flush = "clear"

\* an op recorded while a drain runs is not of that drain
ArrivalDuringDrain ==
    (dq.recv = "store" /\ dq.flush = "drain") =>
        (dq'.recv = "unlock" =>
            /\ dq'.handled[Len(dq'.recorded)] = 0
            /\ dq'.events = dq.events /\ dq'.todo = dq.todo)

(* C26: under every interleaving of the receiver and the ticker, an op     *)
(* recorded for a path is overwritten by a later op of the path or handed  *)
(* to exactly one drain, never lost when the map is copied and cleared; an *)
(* event arriving during a drain is handled by a later drain; and two      *)
(* drains never run at the same time.                                      *)
C26_DebounceMapRaceFree ==
    /\ [](NoOpLostOrTwice /\ dq.running <= 1)
    /\ [][ArrivalDuringDrain]_vars
    /\ \A n \in 1..MaxEvents :
          (Len(dq.recorded) >= n) ~>
              (Len(dq.recorded) >= n
               /\ (dq.fate[n] = "overwritten" \/ dq.handled[n] = 1))

(* An op was recorded while the first drain was running and has been       *)
(* handed to the second drain; an earlier op of another path went to the   *)
(* first.                                                                  *)
C26_Witness ==
    /\ dq.drains = 2 /\ Len(dq.recorded) >= 2
    /\ dq.handled[1] = 1 /\ dq.handled[2] = 1
    /\ dq.recorded[1].path # dq.recorded[2].path
    /\ dq.flush = "drain" /\ dq.events[dq.recorded[2].path] = 2
    /\ dq.events[dq.recorded[1].path] = 0

(* ---------------- Properties of the chunker ---------------- *)

\* the content is not empty
NonEmpty(ls) == ~(Len(ls) = 1 /\ JoinedRunes(ls) = 0)

(* C24: for every non-empty content and both strategies, chunk_index is    *)
(* the position in the list returned (0, 1, 2, ...) and                    *)
(* 1 <= start_line <= end_line <= number of lines of the content.          *)
C24_IndexAndLines ==
    (ck.pc = "done" /\ NonEmpty(ck.lines)) =>
        \A i \in 1..Len(ck.chunks) :
            /\ ck.chunks[i].chunkIndex = i - 1
            /\ 1 <= ck.chunks[i].startLine
            /\ ck.chunks[i].startLine <= ck.chunks[i].endLine
            /\ ck.chunks[i].endLine <= Len(ck.lines)

(* chunkCode has returned the first block as one chunk and, after it, the *)
(* chunks into which chunkText has split the oversized second block.       *)
C24_Witness ==
    /\ ck.pc = "done" /\ ck.code /\ Len(ck.chunks) >= 3
    /\ ck.opts.chunkSize = 4 /\ ck.opts.minChunkSize = 3
    /\ findCodeBoundaries(ck.lines) = << 0, 1 >>
    /\ JoinedRunes(SubSeq(ck.lines, 2, Len(ck.lines))) > 8
    /\ ck.chunks[1].endLine = 1 /\ ck.chunks[2].startLine = 2

(* C25: the content of every chunk is the lines start_line..end_line of    *)
(* the file joined by newlines, no line repeated, for both strategies.     *)
C25_ContiguousSpan ==
    (ck.pc = "done" /\ NonEmpty(ck.lines)) =>
        \A i \in 1..Len(ck.chunks) :
            ck.chunks[i].content =
                [k \in 1..(ck.chunks[i].endLine - ck.chunks[i].startLine + 1) |->
                    ck.chunks[i].startLine + k - 1]

(* ---------------- Properties of the walker ---------------- *)

\* the files Walk is to yield with include_hidden=false and no limit on
\* their number: the files that are not junk and have no dot name on their
\* way from the root
Eligible(t) ==
    {p \in WalkPaths :
        /\ t[p] = "file"
        /\ \A i \in 1..Len(p) : ~HasDotPrefix(p[i])}

(* C21: with include_hidden=false (and no MaxFileCount) Walk yields every  *)
(* file below the root that is eligible and not hidden, whatever the       *)
(* root's own name is.                                                     *)
C21_RootIsNeverSkipped ==
    (wk.pc = "done" /\ ~wk.includeHidden /\ wk.maxFileCount = 0) =>
        {wk.yielded[i] : i \in 1..Len(wk.yielded)} = Eligible(wk.tree)

(* ---------------- Properties of the indexer ---------------- *)

\* this step is the indexer taking up the next walked file
VisitsFile ==
    /\ ix.pc = "loop" /\ ix.i <= Len(ix.files) /\ ix.ctx = "live"
    /\ ix'.pc # ix.pc \/ ix'.i # ix.i

\* the stored File record of the file the indexer is about to take up
StoredRecord == FileByExternalID(db, ix.sid, ix.files[ix.i].path)

\* that record carries the hash the walk computed
StoredHashEqual == \E e \in StoredRecord : e.hash = ix.files[ix.i].hash

SkipsFile ==
    /\ ix'.progress.skipped = ix.progress.skipped + 1
    /\ ix'.embeds = ix.embeds
    /\ ix'.pc = "loop" /\ ix'.i = ix.i + 1
    /\ db' = db

C9_CancellationReturnsError ==
    /\ []((ix.pc = "done" /\ ix.sawCancel) => ix.result = "cancelled")
    /\ [][(~ix.sawCancel /\ ix'.sawCancel) =>
             (db'.files = db.files /\ db'.chunks = db.chunks
              /\ db'.vectors = db.vectors)]_vars

(* C10: a file that fails to be read, embedded or stored adds exactly one  *)
(* to errors and changes no table, the pass goes on with the next walked   *)
(* file, and unless it is cancelled it visits every walked file and Index  *)
(* returns success.                                                        *)
C10_FileFailureContinues ==
    /\ [][(/\ ix.pc \in {"loop", "batch", "upsert"}
           /\ ix'.pc # ix.pc \/ ix'.i # ix.i
           /\ ix'.log \in {"readErr", "embedErr", "storeErr"})
          => (/\ ix'.progress.errors = ix.progress.errors + 1
              /\ ix'.pc = "loop" /\ ix'.i = ix.i + 1 /\ ix'.files = ix.files
              /\ db' = db)]_vars
    /\ []((ix.pc = "done" /\ ix.progress.errors > 0 /\ ix.result # "cancelled")
          => (/\ ix.result = "ok"
              /\ ix.i = Len(ix.files) + 1
              /\ ix.progress.processed + ix.progress.errors = Len(ix.files)))

(* The first walked file has failed and the second has been indexed. *)
C10_Witness ==
    /\ ix.log = "indexed" /\ ix.progress.errors > 0
    /\ Len(ix.files) = 2 /\ ix.i = 3

\* the File records by store and path, and the chunks by store, path,
\* chunk_index and content (which stands for the lines too)
FileKeys(d) == {<<f.store, f.ext>> : f \in d.files}
ChunkTuples(d) ==
    {<<p[2].store, p[2].ext, p[1].idx, p[1].content>> :
        p \in {q \in d.chunks \X d.files : q[1].file = q[2].id}}

SameIndex(d1, d2) ==
    /\ FileKeys(d1) = FileKeys(d2)
    /\ ChunkTuples(d1) = ChunkTuples(d2)
    /\ Cardinality(d1.files) = Cardinality(d2.files)
    /\ Cardinality(d1.chunks) = Cardinality(d2.chunks)
    /\ Cardinality(d1.vectors) = Cardinality(d2.vectors)

OneRecordPerPath(d) ==
    \A f, g \in d.files : (f.store = g.store /\ f.ext = g.ext) => f = g

(* C18: in a pass with force=true over a tree that the pass before has     *)
(* indexed in full and that has not changed since, no step changes the     *)
(* File records (one per path), the (chunk_index, lines, content) tuples   *)
(* of any file, or the numbers of files, chunks and vectors: each file's   *)
(* chunks and vectors are replaced, not added to.                          *)
C18_ForcedReindexIsIdempotent ==
    [][(ix.force /\ ix.settledPrev = disk.ops /\ ix.pc \notin {"idle", "done"})
         => (SameIndex(db, db') /\ OneRecordPerPath(db'))]_vars

(* A forced pass over an unchanged, fully indexed tree has ended without   *)
(* error, having embedded and stored chunks anew in place of the old ones. *)
C18_Witness ==
    /\ ix.pc = "done" /\ ix.force /\ ix.settledPrev = disk.ops
    /\ ix.result = "ok" /\ ix.progress.errors = 0
    /\ ix.progress.processed = 2 /\ ix.progress.processedChunks > 0
    /\ db.seq.chunk > Cardinality(db.chunks)

\* ceil(n / b), and the batch size the options ask for
Ceil(n, b) == (n + b - 1) \div b
AskedBatchSize(bs) == IF bs <= 0 THEN 50 ELSE bs

\* the vectors of the chunks of file ext of store sid, by chunk_index
VectorsByIndex(d, sid, ext) ==
    {<<c.idx, v.dir>> :
        <<c, v>> \in {q \in ChunksOfStore(d, sid) \X d.vectors :
                        /\ q[2].chunk = q[1].id
                        /\ \E f \in FileByExternalID(d, sid, ext) : q[1].file = f.id}}

\* when UpsertFile is about to be called, ceil(n/b) embedding calls have
\* been made for the file and have returned n vectors
BatchesBeforeUpsert ==
    ix.pc = "upsert" =>
        /\ ix.fileEmbeds = Ceil(ix.n, AskedBatchSize(ix.batchSize))
        /\ Len(ix.allEmbeddings) = ix.n

\* an embedding call is made on the next at most b chunks, in their order;
\* one that fails ends the file without a store write
BatchStep ==
    ix.pc = "batch" /\ ix' # ix /\ ix.ctx = ix'.ctx =>
        /\ db' = db
        /\ ix'.pc = "batch" => ix'.b < ix.n
        /\ ix'.pc \in {"batch", "upsert"} =>
              /\ ix'.fileEmbeds = ix.fileEmbeds + 1
              /\ ix'.b > ix.b /\ ix'.b - ix.b <= AskedBatchSize(ix.batchSize)
              /\ ix'.allEmbeddings =
                    ix.allEmbeddings
                    \o [j \in 1..(ix'.b - ix.b) |->
                           EmbedText(ix.content, ix.b + j, IndexInputs.store[2])]
        /\ ix'.pc = "loop" => ix'.i = ix.i + 1 /\ ix'.progress.errors = ix.progress.errors + 1

\* UpsertFile is called once, and when it succeeds chunk i of the file has
\* the vector the embedder returned for chunk i
UpsertStep ==
    ix.pc = "upsert" /\ ix' # ix /\ ix.ctx = ix'.ctx =>
        /\ ix'.pc = "loop" /\ ix'.i = ix.i + 1
        /\ ix'.log = "indexed" =>
              VectorsByIndex(db', ix.sid, ix.files[ix.i].path)
                = {<<i - 1, EmbedText(ix.content, i, IndexInputs.store[2]).dir>> :
                      i \in 1..ix.n}
        /\ ix'.log # "indexed" => db' = db

(* C23: for a file of n > 0 chunks and batch size b (50 when b <= 0) the   *)
(* indexer makes ceil(n/b) embedding calls, one after the other, each on   *)
(* the next at most b chunks, then calls UpsertFile once with chunk i      *)
(* paired with the vector returned for chunk i; when a batch fails         *)
(* UpsertFile is not called and the tables are untouched.                  *)
C23_BatchesThenOneUpsert ==
    /\ []BatchesBeforeUpsert
    /\ [][BatchStep /\ UpsertStep]_vars

(* A file of two chunks has been embedded in two batches of one text and   *)
(* stored, in a pass in which the embedding of another file had failed.    *)
C23_Witness ==
    /\ ix.pc = "loop" /\ ix.log = "indexed" /\ ix.batchSize = 1 /\ ix.embeds >= 3
    /\ ix.progress.errors = 1
    /\ Cardinality(VectorsByIndex(db, ix.sid, "g")) = 2

(* C27: after a pass that ended without error over a tree that has not    *)
(* changed since the pass began, every File record of the store has the    *)
(* hash of the present content of a file the walk yielded, and a file that *)
(* is gone or empty has no File record.                                    *)
C27_StoreReflectsTree ==
    (ix.pc = "done" /\ ix.result = "ok" /\ ix.progress.errors = 0
     /\ disk.ops = ix.fs0) =>
        \A f \in FilesOfStore(db, ix.sid) :
            /\ disk.files[f.ext] # Absent
            /\ NumChunks(disk.files[f.ext]) > 0
            /\ f.hash = HashContent(disk.files[f.ext])

(* ---------------- Properties of the watcher ---------------- *)

(* C7: once the Remove or Rename event of an indexed file that is gone     *)
(* from the tree has been delivered, the next drain leaves no File record  *)
(* of that path in the store and has emitted "delete" for it.              *)
C7_RemovedFileLeavesStore ==
    \A p \in Paths :
        (wt.owed[p] = "drained" /\ disk.files[p] = Absent) =>
            /\ \A st \in StoreByName(db, WatchInputs.store[1]) :
                   FileByExternalID(db, st.id, p) = {}
            /\ <<"delete", p>> \in wt.emitted

(* C8: for the events a path had in the window that a drain closes, the    *)
(* drain does one thing for that path, decided by the last of them: after  *)
(* Remove or Rename one delete and no embedding call nor index write,      *)
(* after Create or Write one re-index.                                     *)
C8_LastOpDecides ==
    \A p \in Paths :
        LET w == wt.closed[p] IN
        w # << >> =>
            /\ w[Len(w)] \in {"Remove", "Rename"} =>
                   wt.acts[p] = [NoActs EXCEPT !.deletes = 1]
            /\ w[Len(w)] \in {"Create", "Write"} => wt.acts[p].indexes = 1

\* the File record of path p with its chunks and vectors, in the store of
\* the watcher
IndexedFile(d, p) ==
    LET fs == UNION {FileByExternalID(d, st.id, p) :
                        st \in StoreByName(d, WatchInputs.store[1])}
        cs == UNION {ChunksOfFile(d, f.id) : f \in fs}
    IN  [files |-> fs, chunks |-> cs, vectors |-> VectorsOfChunks(d, cs)]

(* C28: when a drain handles a Create or Write of a file that is indexed   *)
(* and the re-index fails, the File record, the chunks and the vectors     *)
(* the file had are still in the store after the drain.                    *)
C28_FailedReindexKeepsFile ==
    [][\A p \in Paths :
          (/\ wt.debounce[p] \in {"Create", "Write"}
           /\ wt'.debounce[p] = "none"
           /\ IndexedFile(db, p).files # {}
           /\ wt'.acts[p].indexes = 1
           /\ <<"index", p>> \notin wt'.emitted)
          => IndexedFile(db', p) = IndexedFile(db, p)]_vars

(* C29: every result of lgrep_search for a path refers to a file that is   *)
(* below that path, whatever calls of lgrep_index and lgrep_search on the  *)
(* directories came before; two directories of one name are not mixed.     *)
C29_ResultsAreUnderThePath ==
    (tl.tool = "lgrep_search" /\ ~tl.isError) =>
        \A i \in 1..Len(tl.files) :
            tl.trees[filepathAbs(tl.path)].files[tl.files[i]] # Absent

(* C30: Indexer.Clear and Indexer.Stats called with the name of a store    *)
(* that does not exist return "store not found", as Indexer.DeleteFile     *)
(* does, leave the tables as they were, and do not panic.                  *)
C30_AbsentStoreIsNotFound ==
    (adm.op \in {"DeleteFile", "Clear", "Stats"} /\ ~adm.present) =>
        /\ adm.pc # "panicked"
        /\ adm.err = "store not found"
        /\ ~adm.changed

====
